---- MODULE Spec2Model ----
(***************************************************************************)
(* Layer cache invalidation and metadata migration of the Ruby buildpack:  *)
(* commons::layer::cache_buddy, buildpacks/ruby layers::shared and the     *)
(* cache_state of layers::ruby_install_layer; with the build output        *)
(* (commons::output::log, commons::build_output), the in-app directory     *)
(* cache (commons::in_app_dir_cache) and the Layer strategies of the       *)
(* buildpacks.                                                             *)
(*                                                                         *)
(* A metadata value is a record (field name -> string).  A TOML document   *)
(* is the sequence of its `key = "value"` lines, each a pair <<key, val>>. *)
(* Text shown to the user is a string, built with \o.                      *)
(***************************************************************************)
EXTENDS Integers, Sequences, FiniteSets, TLC

VARIABLES
    layers,   \* the layers directory: layer name -> what is on disk
    ret,      \* the last call of an entry point: its arguments and result
    call,     \* the last direct call of a decision function
    log,      \* the build logger: its live handles and what it has written
    timer,    \* the inline progress timer, its thread and stdout
    fs,       \* the application directory and its cache directory
    layer_data \* the layers of the Layer trait: what the cache holds of each

\* The layers of the build context (layer_name!("testing") in the tests).
LayerNames == {"testing"}

\* The layers directory holds the layers of every step of the buildpack.
AllLayerNames == {"testing", "cache_my_input"}

(***************************************************************************)
(* Metadata schemas of the repository's tests.                             *)
(***************************************************************************)
\* Every field name, in the order toml::Table (a BTreeMap) serializes them.
FieldOrder == <<"name", "updated_at", "value">>

\* The strings each field ranges over.
FieldValues(f) ==
    CASE f = "name" -> {"Schneems", "not_richard"}
      [] f = "updated_at" -> {"unknown", "today"}
      [] f = "value" -> {"hello", "world"}

\* "shared::TestMetadata" is the TestMetadata of layers::shared; PersonV1 and
\* PersonV2 are the same structs in both files.
SchemaNames == {"TestMetadata", "shared::TestMetadata", "PersonV1", "PersonV2"}

\* The fields of a struct, in declaration order.
SchemaFields(s) ==
    CASE s = "TestMetadata" -> <<"value">>
      [] s = "shared::TestMetadata" -> <<"value">>
      [] s = "PersonV1" -> <<"name">>
      [] s = "PersonV2" -> <<"name", "updated_at">>

\* Whether the struct is #[serde(deny_unknown_fields)].
DenyUnknownFields(s) == s # "shared::TestMetadata"

Range(seq) == {seq[i] : i \in DOMAIN seq}

AllStrings == UNION {FieldValues(FieldOrder[i]) : i \in DOMAIN FieldOrder}

\* Every value of a struct: one string per field.
SchemaValues(s) ==
    {v \in [Range(SchemaFields(s)) -> AllStrings] :
        \A f \in Range(SchemaFields(s)) : v[f] \in FieldValues(f)}

\* Placeholder where a result carries no metadata value.
NoValue == [f \in {} |-> ""]

(***************************************************************************)
(* TOML: serialization, rendering, deserialization.                        *)
(***************************************************************************)
\* A Serialize that skips the last field of a struct with several fields.
SerializeStruct_skip_last(s, v) ==
    LET fields == IF Len(SchemaFields(s)) > 1
                  THEN SubSeq(SchemaFields(s), 1, Len(SchemaFields(s)) - 1)
                  ELSE SchemaFields(s)
    IN  [i \in DOMAIN fields |-> <<fields[i], v[fields[i]]>>]

\* serde's Serialize of a struct: its TOML lines in declaration order.
SerializeStruct(s, v) ==
    [i \in DOMAIN SchemaFields(s) |-> <<SchemaFields(s)[i], v[SchemaFields(s)[i]]>>]

DocKeys(doc) == {doc[i][1] : i \in DOMAIN doc}

DocValue(doc, k) == doc[CHOOSE i \in DOMAIN doc : doc[i][1] = k][2]

\* toml::from_str as a generic table (libcnb's GenericMetadata).
DocTable(doc) == [k \in DocKeys(doc) |-> DocValue(doc, k)]

\* serde's Deserialize of a struct: no key twice, every field present, and
\* no other key if the struct denies unknown fields.
Deserialize(s, doc) ==
    IF /\ Len(doc) = Cardinality(DocKeys(doc))
       /\ Range(SchemaFields(s)) \subseteq DocKeys(doc)
       /\ DenyUnknownFields(s) => DocKeys(doc) \subseteq Range(SchemaFields(s))
    THEN [ok |-> TRUE, value |-> [f \in Range(SchemaFields(s)) |-> DocValue(doc, f)]]
    ELSE [ok |-> FALSE, value |-> NoValue]

\* toml::to_string of the invalid metadata handed to invalid_metadata_action:
\* a table is written key by key in BTreeMap order, None is not serializable.
to_string(invalid) ==
    IF ~invalid.some
    THEN [ok |-> FALSE, doc |-> <<>>, error |-> "unsupported None value"]
    ELSE LET keys == SelectSeq(FieldOrder, LAMBDA f : f \in DOMAIN invalid.table)
         IN  [ok |-> TRUE,
              doc |-> [i \in DOMAIN keys |-> <<keys[i], invalid.table[keys[i]]>>],
              error |-> ""]

\* The characters of a TOML document, in chunks: `key = "value"` then a newline.
Render(doc) ==
    [i \in 1..(2 * Len(doc)) |->
        IF i % 2 = 1
        THEN doc[(i + 1) \div 2][1] \o " = \"" \o doc[(i + 1) \div 2][2] \o "\""
        ELSE "\n"]

WhiteSpace == {"\n", " ", "\t", ""}

\* str::trim: drops the leading and trailing white space.
RECURSIVE TrimStart(_)
TrimStart(text) ==
    IF text # <<>> /\ Head(text) \in WhiteSpace THEN TrimStart(Tail(text)) ELSE text

RECURSIVE TrimEnd(_)
TrimEnd(text) ==
    IF text # <<>> /\ text[Len(text)] \in WhiteSpace
    THEN TrimEnd(SubSeq(text, 1, Len(text) - 1))
    ELSE text

trim(text) == TrimEnd(TrimStart(text))

\* The string a chunked text stands for.
RECURSIVE Str(_)
Str(text) == IF text = <<>> THEN "" ELSE Head(text) \o Str(Tail(text))

(***************************************************************************)
(* CacheDiff: the diff of two metadata values.                             *)
(***************************************************************************)
\* diff with the two values of an entry in the wrong order.
diff_swapped(keys, now, old) ==
    LET changed == SelectSeq(keys, LAMBDA k : now[k] # old[k])
    IN  [i \in DOMAIN changed |->
            changed[i] \o " (" \o now[changed[i]] \o " to " \o old[changed[i]] \o ")"]

\* A diff that lists every compared field, changed or not.
diff_unconditional(keys, now, old) ==
    [i \in DOMAIN keys |->
        keys[i] \o " (" \o old[keys[i]] \o " to " \o now[keys[i]] \o ")"]

\* CacheDiff::diff as the tests implement it: one entry per compared field
\* that changed, in field order. TestMetadata compares <<"value">>,
\* AlwaysNoDiff compares no field.
diff(keys, now, old) ==
    LET changed == SelectSeq(keys, LAMBDA k : now[k] # old[k])
    IN  [i \in DOMAIN changed |->
            changed[i] \o " (" \o old[changed[i]] \o " to " \o now[changed[i]] \o ")"]

\* The compared fields an implementation of CacheDiff may have.
DiffKeys(s) ==
    CASE s = "TestMetadata" -> {<<"value">>, <<>>}
      [] s = "shared::TestMetadata" -> {<<"value">>}
      [] s = "PersonV1" -> {<<"name">>}
      [] s = "PersonV2" -> {<<"name">>, <<"name", "updated_at">>}

\* commons::display::SentenceList: "a", "a and b", "a, b and c".
RECURSIVE JoinComma(_)
JoinComma(list) ==
    IF Len(list) = 1 THEN list[1] ELSE list[1] \o ", " \o JoinComma(Tail(list))

SentenceList(list) ==
    IF list = <<>> THEN "empty"
    ELSE IF Len(list) = 1 THEN list[1]
    ELSE JoinComma(SubSeq(list, 1, Len(list) - 1)) \o " and " \o list[Len(list)]

(***************************************************************************)
(* Meta: what a decision reports.                                          *)
(***************************************************************************)
MetaData(v) == [kind |-> "Data", text |-> "", data |-> v]

MetaMessage(m) == [kind |-> "Message", text |-> m, data |-> NoValue]

\* A rendering that ignores the carried message.
as_ref_constant(meta) == "Using cache"

\* AsRef<str> for Meta, which Display writes.
as_ref(meta) == IF meta.kind = "Data" THEN "Using cache" ELSE meta.text

\* Display for Meta: write!(f, "{}", self.as_ref()).
fmt(meta) == as_ref(meta)

\* The causes of buildpacks/ruby layers::shared are plain strings.
PlainString(m) == [kind |-> "String", text |-> m, data |-> NoValue]

\* CacheState of layers::shared: what cached_layer_builder reports.
CacheStateMessage(s) == [kind |-> "Message", text |-> s, data |-> NoValue]

CacheStateData(out) == [kind |-> "Data", text |-> "", data |-> out]

\* AsRef<str> and Display for CacheState.
CacheState_as_ref(state) == IF state.kind = "Message" THEN state.text ELSE "Using cache"

CacheState_fmt(state) == CacheState_as_ref(state)

(***************************************************************************)
(* TryMigrate: the chain of historical schemas and its resolver.           *)
(***************************************************************************)
\* TryMigrate::TryFrom: the schema before s in its chain, s itself for the
\* first of a chain.
TryFromOf(s) == IF s = "PersonV2" THEN "PersonV1" ELSE s

\* Display of PersonMigrationError.
ErrorDisplay(error) == IF error.variant = "NotRichard" THEN "Not Richard" ELSE ""

NoError == [variant |-> "", name |-> ""]

\* The conversion without its check of the name.
try_from_unchecked(s, before) ==
    [ok |-> TRUE,
     value |-> [name |-> before.name, updated_at |-> "unknown"],
     error |-> NoError]

\* impl TryFrom<PersonV1> for PersonV2.
try_from(s, before) ==
    IF before.name = "Schneems"
    THEN [ok |-> TRUE,
          value |-> [name |-> before.name, updated_at |-> "unknown"],
          error |-> NoError]
    ELSE [ok |-> FALSE,
          value |-> NoValue,
          error |-> [variant |-> "NotRichard", name |-> before.name]]

\* A resolver that walks the chain from its oldest schema to the target.
RECURSIVE try_from_str_migrations_oldest_first(_, _)
try_from_str_migrations_oldest_first(M, toml) ==
    LET direct == Deserialize(M, toml)
        inner == try_from_str_migrations_oldest_first(TryFromOf(M), toml)
        conv == try_from(M, inner.value)
        tried == IF TryFromOf(M) = M THEN <<M>> ELSE inner.attempts \o <<M>>
    IN  IF TryFromOf(M) # M /\ inner.some /\ inner.ok
        THEN [some |-> TRUE, ok |-> conv.ok, value |-> conv.value, error |-> conv.error,
              attempts |-> inner.attempts, steps |-> inner.steps \o <<M>>]
        ELSE IF TryFromOf(M) # M /\ inner.some
        THEN inner
        ELSE IF direct.ok
        THEN [some |-> TRUE, ok |-> TRUE, value |-> direct.value, error |-> NoError,
              attempts |-> tried, steps |-> <<>>]
        ELSE [some |-> FALSE, ok |-> FALSE, value |-> NoValue, error |-> NoError,
              attempts |-> tried, steps |-> <<>>]

\* TryMigrate::try_from_str_migrations: Some(Ok), Some(Err) or None, with the
\* schemas it deserialized as (attempts) and the conversions it ran (steps).
RECURSIVE try_from_str_migrations(_, _)
try_from_str_migrations(M, toml) ==
    LET direct == Deserialize(M, toml)
    IN  IF direct.ok
        THEN [some |-> TRUE, ok |-> TRUE, value |-> direct.value, error |-> NoError,
              attempts |-> <<M>>, steps |-> <<>>]
        ELSE IF TryFromOf(M) = M
        THEN [some |-> FALSE, ok |-> FALSE, value |-> NoValue, error |-> NoError,
              attempts |-> <<M>>, steps |-> <<>>]
        ELSE LET inner == try_from_str_migrations(TryFromOf(M), toml)
                 conv == try_from(M, inner.value)
             IN  IF ~inner.some \/ ~inner.ok
                 THEN [inner EXCEPT !.attempts = <<M>> \o @]
                 ELSE [some |-> TRUE, ok |-> conv.ok, value |-> conv.value,
                       error |-> conv.error,
                       attempts |-> <<M>> \o inner.attempts,
                       steps |-> inner.steps \o <<M>>]

(***************************************************************************)
(* commons::layer::cache_buddy: the two decision functions.                *)
(***************************************************************************)
\* restored_layer_action with its condition inverted.
restored_layer_action_inverted(keys, old, now) ==
    LET d == diff(keys, now, old)
    IN  IF d # <<>>
        THEN [action |-> "KeepLayer", cause |-> MetaData(old)]
        ELSE [action |-> "DeleteLayer",
              cause |-> MetaMessage("Clearing cache due to "
                            \o (IF Len(d) > 1 THEN "changes" ELSE "change")
                            \o ": " \o SentenceList(d))]

\* restored_layer_action deciding by equality of the two values.
restored_layer_action_eq(keys, old, now) ==
    LET d == diff(keys, now, old)
    IN  IF old = now
        THEN [action |-> "KeepLayer", cause |-> MetaData(old)]
        ELSE [action |-> "DeleteLayer",
              cause |-> MetaMessage("Clearing cache due to "
                            \o (IF Len(d) > 1 THEN "changes" ELSE "change")
                            \o ": " \o SentenceList(d))]

\* restored_layer_action handing back the fresh value.
restored_layer_action_fresh(keys, old, now) ==
    LET d == diff(keys, now, old)
    IN  IF d = <<>>
        THEN [action |-> "KeepLayer", cause |-> MetaData(now)]
        ELSE [action |-> "DeleteLayer",
              cause |-> MetaMessage("Clearing cache due to "
                            \o (IF Len(d) > 1 THEN "changes" ELSE "change")
                            \o ": " \o SentenceList(d))]

\* restored_layer_action answering from its previous call when the fresh
\* value is the same as then.
restored_layer_action_memo(keys, old, now) ==
    LET d == diff(keys, now, old)
    IN  IF call.fn = "restored_layer_action" /\ call.api = "commons" /\ call.args.now = now
        THEN call.result
        ELSE IF d = <<>>
        THEN [action |-> "KeepLayer", cause |-> MetaData(old)]
        ELSE [action |-> "DeleteLayer",
              cause |-> MetaMessage("Clearing cache due to "
                            \o (IF Len(d) > 1 THEN "changes" ELSE "change")
                            \o ": " \o SentenceList(d))]

\* restored_layer_action writing "changes" whatever the number of entries.
restored_layer_action_plural(keys, old, now) ==
    LET d == diff(keys, now, old)
    IN  IF d = <<>>
        THEN [action |-> "KeepLayer", cause |-> MetaData(old)]
        ELSE [action |-> "DeleteLayer",
              cause |-> MetaMessage("Clearing cache due to changes: " \o SentenceList(d))]

\* restored_layer_action reporting the old value also when it deletes.
restored_layer_action_data_on_delete(keys, old, now) ==
    LET d == diff(keys, now, old)
    IN  IF d = <<>>
        THEN [action |-> "KeepLayer", cause |-> MetaData(old)]
        ELSE [action |-> "DeleteLayer", cause |-> MetaData(old)]

restored_layer_action(keys, old, now) ==
    LET d == diff(keys, now, old)
    IN  IF d = <<>>
        THEN [action |-> "KeepLayer", cause |-> MetaData(old)]
        ELSE [action |-> "DeleteLayer",
              cause |-> MetaMessage("Clearing cache due to "
                            \o (IF Len(d) > 1 THEN "changes" ELSE "change")
                            \o ": " \o SentenceList(d))]

\* Debug of PersonMigrationError.
ErrorDebug(error) == "NotRichard(NotRichard { name: \"" \o error.name \o "\" })"

\* invalid_metadata_action writing the error with {:?}.
invalid_metadata_action_debug(M, invalid) ==
    LET toml == to_string(invalid)
        res == try_from_str_migrations(M, toml.doc)
    IN  IF ~toml.ok
        THEN [action |-> "DeleteLayer", metadata |-> NoValue,
              cause |-> MetaMessage(
                  "Clearing cache due to invalid metadata serialization error: "
                      \o toml.error)]
        ELSE IF res.some /\ res.ok
        THEN [action |-> "ReplaceMetadata", metadata |-> res.value,
              cause |-> MetaData(res.value)]
        ELSE IF res.some
        THEN [action |-> "DeleteLayer", metadata |-> NoValue,
              cause |-> MetaMessage("Clearing cache due to metadata migration error: "
                            \o ErrorDebug(res.error))]
        ELSE [action |-> "DeleteLayer", metadata |-> NoValue,
              cause |-> MetaMessage("Clearing cache due to invalid metadata ("
                            \o Str(trim(Render(toml.doc))) \o ")")]

\* invalid_metadata_action without the trim.
invalid_metadata_action_untrimmed(M, invalid) ==
    LET toml == to_string(invalid)
        res == try_from_str_migrations(M, toml.doc)
    IN  IF ~toml.ok
        THEN [action |-> "DeleteLayer", metadata |-> NoValue,
              cause |-> MetaMessage(
                  "Clearing cache due to invalid metadata serialization error: "
                      \o toml.error)]
        ELSE IF res.some /\ res.ok
        THEN [action |-> "ReplaceMetadata", metadata |-> res.value,
              cause |-> MetaData(res.value)]
        ELSE IF res.some
        THEN [action |-> "DeleteLayer", metadata |-> NoValue,
              cause |-> MetaMessage("Clearing cache due to metadata migration error: "
                            \o ErrorDisplay(res.error))]
        ELSE [action |-> "DeleteLayer", metadata |-> NoValue,
              cause |-> MetaMessage("Clearing cache due to invalid metadata ("
                            \o Str(Render(toml.doc)) \o ")")]

\* invalid_metadata_action without the Some(Err(error)) arm.
invalid_metadata_action_merge_err(M, invalid) ==
    LET toml == to_string(invalid)
        res == try_from_str_migrations(M, toml.doc)
    IN  IF ~toml.ok
        THEN [action |-> "DeleteLayer", metadata |-> NoValue,
              cause |-> MetaMessage(
                  "Clearing cache due to invalid metadata serialization error: "
                      \o toml.error)]
        ELSE IF res.some /\ res.ok
        THEN [action |-> "ReplaceMetadata", metadata |-> res.value,
              cause |-> MetaData(res.value)]
        ELSE [action |-> "DeleteLayer", metadata |-> NoValue,
              cause |-> MetaMessage("Clearing cache due to invalid metadata ("
                            \o Str(trim(Render(toml.doc))) \o ")")]

invalid_metadata_action(M, invalid) ==
    LET toml == to_string(invalid)
        res == try_from_str_migrations(M, toml.doc)
    IN  IF ~toml.ok
        THEN [action |-> "DeleteLayer", metadata |-> NoValue,
              cause |-> MetaMessage(
                  "Clearing cache due to invalid metadata serialization error: "
                      \o toml.error)]
        ELSE IF res.some /\ res.ok
        THEN [action |-> "ReplaceMetadata", metadata |-> res.value,
              cause |-> MetaData(res.value)]
        ELSE IF res.some
        THEN [action |-> "DeleteLayer", metadata |-> NoValue,
              cause |-> MetaMessage("Clearing cache due to metadata migration error: "
                            \o ErrorDisplay(res.error))]
        ELSE [action |-> "DeleteLayer", metadata |-> NoValue,
              cause |-> MetaMessage("Clearing cache due to invalid metadata ("
                            \o Str(trim(Render(toml.doc))) \o ")")]

(***************************************************************************)
(* buildpacks/ruby layers::shared: the same decisions with string causes.  *)
(***************************************************************************)
shared_restored_layer_action(keys, old, now) ==
    LET d == diff(keys, now, old)
    IN  IF d = <<>>
        THEN [action |-> "KeepLayer", cause |-> PlainString("Using cache")]
        ELSE [action |-> "DeleteLayer",
              cause |-> PlainString("Clearing cache due to "
                            \o (IF Len(d) > 1 THEN "changes" ELSE "change")
                            \o ": " \o SentenceList(d))]

shared_invalid_metadata_action(T, invalid) ==
    LET toml == to_string(invalid)
        res == try_from_str_migrations(T, toml.doc)
    IN  IF ~toml.ok
        THEN [action |-> "DeleteLayer", metadata |-> NoValue,
              cause |-> PlainString(
                  "Clearing cache due to invalid metadata serialization error: "
                      \o toml.error)]
        ELSE IF res.some /\ res.ok
        THEN [action |-> "ReplaceMetadata", metadata |-> res.value,
              cause |-> PlainString("Replaced metadata")]
        ELSE IF res.some
        THEN [action |-> "DeleteLayer", metadata |-> NoValue,
              cause |-> PlainString("Clearing cache due to metadata migration error: "
                            \o ErrorDisplay(res.error))]
        ELSE [action |-> "DeleteLayer", metadata |-> NoValue,
              cause |-> PlainString("Clearing cache due to invalid metadata ("
                            \o Str(trim(Render(toml.doc))) \o ")")]

\* The with_data closure a caller of cached_layer_builder passes: here one
\* that returns both its arguments.
with_data(old, now) == [old |-> old, now |-> now]

\* The two closures cached_layer_builder passes to cached_layer.
builder_invalid_metadata_action(M, invalid) ==
    LET r == shared_invalid_metadata_action(M, invalid)
    IN  IF r.action = "ReplaceMetadata"
        THEN [r EXCEPT !.cause = CacheStateMessage("Using cache")]
        ELSE [r EXCEPT !.cause = CacheStateMessage(r.cause.text)]

\* builder_restored_layer_action handing with_data the fresh value first.
builder_restored_layer_action_swapped(keys, old, now) ==
    LET r == shared_restored_layer_action(keys, old, now)
    IN  IF r.action = "KeepLayer"
        THEN [r EXCEPT !.cause = CacheStateData(with_data(now, old))]
        ELSE [r EXCEPT !.cause = CacheStateMessage(r.cause.text)]

builder_restored_layer_action(keys, old, now) ==
    LET r == shared_restored_layer_action(keys, old, now)
    IN  IF r.action = "KeepLayer"
        THEN [r EXCEPT !.cause = CacheStateData(with_data(old, now))]
        ELSE [r EXCEPT !.cause = CacheStateMessage(r.cause.text)]

(***************************************************************************)
(* buildpacks/ruby layers::ruby_install_layer: what changed between the    *)
(* stored metadata and the current one.                                    *)
(***************************************************************************)
StackIds == {"heroku-20", "heroku-22"}

ResolvedRubyVersions == {"2.7.4", "3.1.3"}

RubyInstallLayerMetadata == [stack : StackIds, version : ResolvedRubyVersions]

\* cache_state comparing the version first.
cache_state_version_first(old, now) ==
    IF old.version # now.version
    THEN [changed |-> "RubyVersion", fields |-> <<old.version, now.version>>]
    ELSE IF old.stack # now.stack
    THEN [changed |-> "Stack", fields |-> <<old.stack, now.stack>>]
    ELSE [changed |-> "Nothing", fields |-> <<now.version>>]

\* fn cache_state: a Changed, the stack compared first.
cache_state(old, now) ==
    IF old.stack # now.stack
    THEN [changed |-> "Stack", fields |-> <<old.stack, now.stack>>]
    ELSE IF old.version # now.version
    THEN [changed |-> "RubyVersion", fields |-> <<old.version, now.version>>]
    ELSE [changed |-> "Nothing", fields |-> <<now.version>>]

(***************************************************************************)
(* The layers directory, as libcnb keeps it: per layer a directory and a   *)
(* <layer>.toml with the layer types and the metadata table.               *)
(***************************************************************************)
NoLayer == [exists |-> FALSE, build |-> FALSE, launch |-> FALSE,
            hasMeta |-> FALSE, doc |-> <<>>]

\* libcnb create_layer: an empty directory, the types, no metadata yet.
create_layer(types) ==
    [exists |-> TRUE, build |-> types.build, launch |-> types.launch,
     hasMeta |-> FALSE, doc |-> <<>>]

\* LayerRef::write_metadata: the metadata table is replaced by the
\* serialized value.
write_metadata(layer, M, metadata) ==
    [layer EXCEPT !.hasMeta = TRUE, !.doc = SerializeStruct(M, metadata)]

NoCause == [kind |-> "None", text |-> "", data |-> NoValue]

\* How often a cached layer is re-read after its metadata was replaced.
MaxReentry == 2

\* The callbacks of the CachedLayerDefinition each entry point passes.
InvalidCallback(api, M, invalid) ==
    IF api = "commons"
    THEN invalid_metadata_action(M, invalid)
    ELSE IF api = "builder"
    THEN builder_invalid_metadata_action(M, invalid)
    ELSE shared_invalid_metadata_action(M, invalid)

RestoredCallback(api, keys, old, now) ==
    IF api = "commons"
    THEN restored_layer_action(keys, old, now)
    ELSE IF api = "builder"
    THEN builder_restored_layer_action(keys, old, now)
    ELSE shared_restored_layer_action(keys, old, now)

\* A cached_layer that hands a layer it does not find to the invalid metadata
\* callback, as if it had found one without metadata.
RECURSIVE handle_cached_layer_absent_invalid(_, _, _, _, _, _, _)
handle_cached_layer_absent_invalid(api, M, keys, now, types, layer, fuel) ==
    LET parsed == IF layer.exists /\ layer.hasMeta
                  THEN Deserialize(M, layer.doc)
                  ELSE [ok |-> FALSE, value |-> NoValue]
    IN  IF parsed.ok
        THEN LET rla == RestoredCallback(api, keys, parsed.value, now)
             IN  IF rla.action = "KeepLayer"
                 THEN [disk |-> [layer EXCEPT !.build = types.build,
                                              !.launch = types.launch],
                       state |-> [kind |-> "Restored", why |-> "Restored",
                                  cause |-> rla.cause],
                       trace |-> <<"restored_layer_action">>]
                 ELSE [disk |-> create_layer(types),
                       state |-> [kind |-> "Empty", why |-> "RestoredLayerAction",
                                  cause |-> rla.cause],
                       trace |-> <<"restored_layer_action">>]
        ELSE LET ima == InvalidCallback(api, M,
                            [some |-> layer.hasMeta, table |-> DocTable(layer.doc)])
             IN  IF ima.action = "DeleteLayer"
                 THEN [disk |-> create_layer(types),
                       state |-> [kind |-> "Empty", why |-> "InvalidMetadataAction",
                                  cause |-> ima.cause],
                       trace |-> <<"invalid_metadata_action">>]
                 ELSE IF fuel = 0
                 THEN [disk |-> write_metadata(layer, M, ima.metadata),
                       state |-> [kind |-> "Overflow", why |-> "Overflow",
                                  cause |-> NoCause],
                       trace |-> <<"invalid_metadata_action">>]
                 ELSE LET again == handle_cached_layer_absent_invalid(
                                       api, M, keys, now, types,
                                       write_metadata(layer, M, ima.metadata), fuel - 1)
                      IN  [again EXCEPT !.trace = <<"invalid_metadata_action">> \o @]

\* BuildContext::cached_layer: read the layer, ask the callbacks, apply the
\* action. trace lists the callbacks in call order.
RECURSIVE handle_cached_layer(_, _, _, _, _, _, _)
handle_cached_layer(api, M, keys, now, types, layer, fuel) ==
    IF ~layer.exists
    THEN [disk |-> create_layer(types),
          state |-> [kind |-> "Empty", why |-> "NewlyCreated", cause |-> NoCause],
          trace |-> <<>>]
    ELSE LET parsed == IF layer.hasMeta
                       THEN Deserialize(M, layer.doc)
                       ELSE [ok |-> FALSE, value |-> NoValue]
         IN  IF parsed.ok
             THEN LET rla == RestoredCallback(api, keys, parsed.value, now)
                  IN  IF rla.action = "KeepLayer"
                      THEN [disk |-> [layer EXCEPT !.build = types.build,
                                                   !.launch = types.launch],
                            state |-> [kind |-> "Restored", why |-> "Restored",
                                       cause |-> rla.cause],
                            trace |-> <<"restored_layer_action">>]
                      ELSE [disk |-> create_layer(types),
                            state |-> [kind |-> "Empty", why |-> "RestoredLayerAction",
                                       cause |-> rla.cause],
                            trace |-> <<"restored_layer_action">>]
             ELSE LET ima == InvalidCallback(api, M,
                                 [some |-> layer.hasMeta, table |-> DocTable(layer.doc)])
                  IN  IF ima.action = "DeleteLayer"
                      THEN [disk |-> create_layer(types),
                            state |-> [kind |-> "Empty", why |-> "InvalidMetadataAction",
                                       cause |-> ima.cause],
                            trace |-> <<"invalid_metadata_action">>]
                      ELSE IF fuel = 0
                      THEN [disk |-> write_metadata(layer, M, ima.metadata),
                            state |-> [kind |-> "Overflow", why |-> "Overflow",
                                       cause |-> NoCause],
                            trace |-> <<"invalid_metadata_action">>]
                      ELSE LET again == handle_cached_layer(api, M, keys, now, types,
                                            write_metadata(layer, M, ima.metadata),
                                            fuel - 1)
                           IN  [again EXCEPT !.trace = <<"invalid_metadata_action">> \o @]

(***************************************************************************)
(* State.                                                                  *)
(***************************************************************************)
vars == <<layers, ret, call, log, timer, fs, layer_data>>

NoCall == [fn |-> "none", args |-> <<>>, result |-> <<>>]

NoPrev == [any |-> FALSE, ok |-> FALSE, M |-> "", metadata |-> NoValue]

NoRet == [fn |-> "none", layer |-> "", M |-> "", keys |-> <<>>, metadata |-> NoValue,
          given |-> [build |-> [some |-> FALSE, v |-> FALSE],
                     launch |-> [some |-> FALSE, v |-> FALSE]],
          types |-> [build |-> FALSE, launch |-> FALSE],
          fault |-> "none", ok |-> FALSE,
          state |-> [kind |-> "None", why |-> "None", cause |-> NoCause],
          trace |-> <<>>, prior |-> NoLayer, prev |-> NoPrev]

\* No inline timer started, nothing printed: where the main thread is, the
\* fields of LiveTimingInline (join_dots is Some, the Sender is alive), the
\* channel, the thread's position and last recv_timeout, stdout, the time.
NoTimer ==
    [main |-> "idle", join_dots |-> FALSE, stop_dots |-> FALSE, start |-> 0,
     channel |-> <<>>, thread |-> "none", msg_is_ok |-> FALSE,
     stdout |-> <<>>, clock |-> 0, dones |-> 0]

\* The paths below a directory, in the alphabetical order glob yields them.
PathOrder == <<"a_newer", "lol.txt", "preservation_society", "z_older">>

\* No file or directory at a path.
NoEntry == [kind |-> "none", size |-> 0, modified |-> 0, content |-> ""]

\* DirCache::mkdir_p on a new directory: app path and cache path exist, empty.
EmptyDirs ==
    [app |-> [p \in Range(PathOrder) |-> NoEntry],
     cache |-> [p \in Range(PathOrder) |-> NoEntry]]

\* No timer thread of the logger.
\* No layer of the Layer trait is in the cache.
NoLayerData ==
    [l \in {"RubyInstallLayer", "CreateBundlePathLayer", "InstallAgentmon"} |->
        [exists |-> FALSE, compatible |-> TRUE, metadata |-> <<>>]]

NoBackground == [pc |-> "none", stop |-> FALSE, ticks |-> 0, start |-> ""]

\* No method of the logger called yet.
NoMethod == [method |-> "none", self |-> {}, out |-> {}]

\* BuildLog::new(io): one handle in state NotStarted over an empty writer,
\* started: Instant::now().
BuildLog_new ==
    [live |-> {[id |-> 0, state |-> "NotStarted", started |-> 0]},
     io |-> <<>>, clock |-> 0, last |-> NoMethod,
     background |-> NoBackground, writers |-> 0]

\* A fresh layers directory (tempfile::tempdir in the tests), nothing called,
\* a new logger, no timer running, app and cache directory empty.
Init ==
    /\ layers = [n \in AllLayerNames |-> NoLayer]
    /\ ret = NoRet
    /\ call = NoCall
    /\ log = BuildLog_new
    /\ timer = NoTimer
    /\ fs = EmptyDirs
    /\ layer_data = NoLayerData

\* Where a call can fail: nowhere, in cached_layer (the layer cannot be
\* read), or in write_metadata (the metadata cannot be serialized or written).
Faults == {"none", "cached_layer", "write_metadata"}

\* The metadata types a layer is built with: a struct and the fields its
\* diff compares.
MetadataTypes ==
    {[schema |-> "TestMetadata", keys |-> <<"value">>],
     [schema |-> "TestMetadata", keys |-> <<>>],
     [schema |-> "PersonV1", keys |-> <<"name">>],
     [schema |-> "PersonV2", keys |-> <<"name">>]}

\* The fresh metadata a build computes: a type and a value of it.
FreshMetadata ==
    UNION {{[schema |-> t.schema, keys |-> t.keys, metadata |-> v] :
                v \in SchemaValues(t.schema)} : t \in MetadataTypes}

\* The same for the entry point of layers::shared.
SharedMetadataTypes ==
    {[schema |-> "shared::TestMetadata", keys |-> <<"value">>],
     [schema |-> "PersonV1", keys |-> <<"name">>],
     [schema |-> "PersonV2", keys |-> <<"name">>]}

SharedFreshMetadata ==
    UNION {{[schema |-> t.schema, keys |-> t.keys, metadata |-> v] :
                v \in SchemaValues(t.schema)} : t \in SharedMetadataTypes}

\* An entry point that writes the metadata only of a layer it found empty.
CachedLayerCall_write_if_empty(fn, api, name, given, types, M, keys, metadata, fault) ==
    LET h == handle_cached_layer(api, M, keys, metadata, types, layers[name], MaxReentry)
        result == [fn |-> fn, layer |-> name, M |-> M, keys |-> keys,
                   metadata |-> metadata, fault |-> fault,
                   given |-> given, types |-> types,
                   prior |-> layers[name],
                   prev |-> [any |-> ret.fn # "none", ok |-> ret.ok, M |-> ret.M,
                             metadata |-> ret.metadata]]
        failed == [kind |-> "None", why |-> "None", cause |-> NoCause]
    IN  /\ UNCHANGED <<call, log, timer, fs, layer_data>>
        /\ IF fault = "cached_layer"
           THEN /\ layers' = layers
                /\ ret' = result @@ [ok |-> FALSE, state |-> failed, trace |-> <<>>]
           ELSE IF fault = "write_metadata"
           THEN /\ layers' = [layers EXCEPT ![name] = h.disk]
                /\ ret' = result @@ [ok |-> FALSE, state |-> failed, trace |-> h.trace]
           ELSE /\ layers' = [layers EXCEPT ![name] =
                                  IF h.state.kind = "Empty"
                                  THEN write_metadata(h.disk, M, metadata)
                                  ELSE h.disk]
                /\ ret' = result @@ [ok |-> TRUE, state |-> h.state, trace |-> h.trace]

\* An entry point that drops the error of write_metadata and returns the layer.
CachedLayerCall_ignore_write_error(fn, api, name, given, types, M, keys, metadata, fault) ==
    LET h == handle_cached_layer(api, M, keys, metadata, types, layers[name], MaxReentry)
        result == [fn |-> fn, layer |-> name, M |-> M, keys |-> keys,
                   metadata |-> metadata, fault |-> fault,
                   given |-> given, types |-> types,
                   prior |-> layers[name],
                   prev |-> [any |-> ret.fn # "none", ok |-> ret.ok, M |-> ret.M,
                             metadata |-> ret.metadata]]
        failed == [kind |-> "None", why |-> "None", cause |-> NoCause]
    IN  /\ UNCHANGED <<call, log, timer, fs, layer_data>>
        /\ IF fault = "cached_layer"
           THEN /\ layers' = layers
                /\ ret' = result @@ [ok |-> FALSE, state |-> failed, trace |-> <<>>]
           ELSE IF fault = "write_metadata"
           THEN /\ layers' = [layers EXCEPT ![name] = h.disk]
                /\ ret' = result @@ [ok |-> TRUE, state |-> h.state, trace |-> h.trace]
           ELSE /\ layers' = [layers EXCEPT ![name] = write_metadata(h.disk, M, metadata)]
                /\ ret' = result @@ [ok |-> TRUE, state |-> h.state, trace |-> h.trace]

\* An entry point that decides against the metadata of its previous call,
\* whichever layer that call was for, when it finds a layer on disk.
CachedLayerCall_remembers_last(fn, api, name, given, types, M, keys, metadata, fault) ==
    LET found == IF layers[name].exists /\ ret.ok
                 THEN write_metadata(layers[name], ret.M, ret.metadata)
                 ELSE layers[name]
        h == handle_cached_layer(api, M, keys, metadata, types, found, MaxReentry)
        result == [fn |-> fn, layer |-> name, M |-> M, keys |-> keys,
                   metadata |-> metadata, fault |-> fault,
                   given |-> given, types |-> types,
                   prior |-> layers[name],
                   prev |-> [any |-> ret.fn # "none", ok |-> ret.ok, M |-> ret.M,
                             metadata |-> ret.metadata]]
        failed == [kind |-> "None", why |-> "None", cause |-> NoCause]
    IN  /\ UNCHANGED <<call, log, timer, fs, layer_data>>
        /\ IF fault = "cached_layer"
           THEN /\ layers' = layers
                /\ ret' = result @@ [ok |-> FALSE, state |-> failed, trace |-> <<>>]
           ELSE IF fault = "write_metadata"
           THEN /\ layers' = [layers EXCEPT ![name] = h.disk]
                /\ ret' = result @@ [ok |-> FALSE, state |-> failed, trace |-> h.trace]
           ELSE /\ layers' = [layers EXCEPT ![name] = write_metadata(h.disk, M, metadata)]
                /\ ret' = result @@ [ok |-> TRUE, state |-> h.state, trace |-> h.trace]

\* An entry point that passes launch as build and build as launch.
CachedLayerCall_swapped_flags(fn, api, name, given, types, M, keys, metadata, fault) ==
    LET h == handle_cached_layer(api, M, keys, metadata,
                                 [build |-> types.launch, launch |-> types.build],
                                 layers[name], MaxReentry)
        result == [fn |-> fn, layer |-> name, M |-> M, keys |-> keys,
                   metadata |-> metadata, fault |-> fault,
                   given |-> given, types |-> types,
                   prior |-> layers[name],
                   prev |-> [any |-> ret.fn # "none", ok |-> ret.ok, M |-> ret.M,
                             metadata |-> ret.metadata]]
        failed == [kind |-> "None", why |-> "None", cause |-> NoCause]
    IN  /\ UNCHANGED <<call, log, timer, fs, layer_data>>
        /\ IF fault = "cached_layer"
           THEN /\ layers' = layers
                /\ ret' = result @@ [ok |-> FALSE, state |-> failed, trace |-> <<>>]
           ELSE IF fault = "write_metadata"
           THEN /\ layers' = [layers EXCEPT ![name] = h.disk]
                /\ ret' = result @@ [ok |-> FALSE, state |-> failed, trace |-> h.trace]
           ELSE /\ layers' = [layers EXCEPT ![name] = write_metadata(h.disk, M, metadata)]
                /\ ret' = result @@ [ok |-> TRUE, state |-> h.state, trace |-> h.trace]

\* One call of an entry point: cached_layer with the entry point's callbacks,
\* then write_metadata; `?` returns the first error.
CachedLayerCall(fn, api, name, given, types, M, keys, metadata, fault) ==
    LET h == handle_cached_layer(api, M, keys, metadata, types, layers[name], MaxReentry)
        result == [fn |-> fn, layer |-> name, M |-> M, keys |-> keys,
                   metadata |-> metadata, fault |-> fault,
                   given |-> given, types |-> types,
                   prior |-> layers[name],
                   prev |-> [any |-> ret.fn # "none", ok |-> ret.ok, M |-> ret.M,
                             metadata |-> ret.metadata]]
        failed == [kind |-> "None", why |-> "None", cause |-> NoCause]
    IN  /\ UNCHANGED <<call, log, timer, fs, layer_data>>
        /\ IF fault = "cached_layer"
           THEN /\ layers' = layers
                /\ ret' = result @@ [ok |-> FALSE, state |-> failed, trace |-> <<>>]
           ELSE IF fault = "write_metadata"
           THEN /\ layers' = [layers EXCEPT ![name] = h.disk]
                /\ ret' = result @@ [ok |-> FALSE, state |-> failed, trace |-> h.trace]
           ELSE /\ layers' = [layers EXCEPT ![name] = write_metadata(h.disk, M, metadata)]
                /\ ret' = result @@ [ok |-> TRUE, state |-> h.state, trace |-> h.trace]

\* Option<bool>.
None == [some |-> FALSE, v |-> FALSE]

Some(b) == [some |-> TRUE, v |-> b]

OptionBool == {None, Some(TRUE), Some(FALSE)}

unwrap_or(opt, default) == IF opt.some THEN opt.v ELSE default

(***************************************************************************)
(* The entry points.                                                       *)
(***************************************************************************)
\* CacheBuddy { build, launch }.layer(layer_name, context, metadata)
CacheBuddy_layer(names, flags, fresh) ==
    \E name \in names, build \in flags, launch \in flags,
       m \in fresh, fault \in Faults :
            CachedLayerCall("CacheBuddy::layer", "commons", name,
                            [build |-> Some(build), launch |-> Some(launch)],
                            [build |-> build, launch |-> launch],
                            m.schema, m.keys, m.metadata, fault)

\* diff_migrate_cached_layer().layer_name(..).context(..).metadata(..).call(),
\* with or without .build(..) and .launch(..)
diff_migrate_cached_layer(names, options, fresh) ==
    \E name \in names, build \in options, launch \in options,
       m \in fresh, fault \in Faults :
            CachedLayerCall("diff_migrate_cached_layer", "commons", name,
                            [build |-> build, launch |-> launch],
                            [build |-> unwrap_or(build, TRUE),
                             launch |-> unwrap_or(launch, TRUE)],
                            m.schema, m.keys, m.metadata, fault)

\* layers::shared::cached_layer_write_metadata(layer_name, context, metadata)
cached_layer_write_metadata ==
    \E name \in LayerNames, m \in SharedFreshMetadata, fault \in Faults :
        CachedLayerCall("cached_layer_write_metadata", "shared", name,
                            [build |-> None, launch |-> None],
                            [build |-> TRUE, launch |-> TRUE],
                            m.schema, m.keys, m.metadata, fault)

\* layers::shared::cached_layer_builder().layer_name(..).context(..)
\* .metadata(..).with_data(..).call(), with or without .build(..) and .launch(..)
cached_layer_builder(names, options, fresh) ==
    \E name \in names, build \in options, launch \in options,
       m \in fresh, fault \in Faults :
            CachedLayerCall("cached_layer_builder", "builder", name,
                            [build |-> build, launch |-> launch],
                            [build |-> unwrap_or(build, TRUE),
                             launch |-> unwrap_or(launch, TRUE)],
                            m.schema, m.keys, m.metadata, fault)

\* Builds of one layer as the tests run them: CacheBuddy { build: true,
\* launch: true }, the builder's flags left unset.
Next ==
    \/ CacheBuddy_layer(LayerNames, {TRUE}, FreshMetadata)
    \/ diff_migrate_cached_layer(LayerNames, {None}, FreshMetadata)
    \/ cached_layer_write_metadata

Spec == Init /\ [][Next]_vars

\* Builds of a layer of the Person types with the flags true or false, set
\* or left unset.
PersonFreshMetadata ==
    {m \in FreshMetadata :
        \/ m.schema = "PersonV1"
        \/ m.schema = "PersonV2" /\ m.metadata.updated_at = "unknown"}

NextFlags ==
    \/ CacheBuddy_layer(LayerNames, BOOLEAN, PersonFreshMetadata)
    \/ diff_migrate_cached_layer(LayerNames, {None, Some(FALSE)}, PersonFreshMetadata)
    \/ cached_layer_builder(LayerNames, {None, Some(FALSE)}, PersonFreshMetadata)

SpecFlags == Init /\ [][NextFlags]_vars

\* Builds of two layers in any order.
TestFreshMetadata ==
    {m \in FreshMetadata :
        \/ m.schema = "TestMetadata" /\ m.keys = <<"value">>
        \/ m \in PersonFreshMetadata}

NextLayers == CacheBuddy_layer(AllLayerNames, {TRUE}, TestFreshMetadata)

SpecLayers == Init /\ [][NextLayers]_vars

(***************************************************************************)
(* The decision functions and the resolver called directly, as the unit    *)
(* tests do.                                                               *)
(***************************************************************************)
\* Every table over the known fields.
Tables ==
    UNION {{t \in [S -> AllStrings] : \A f \in S : t[f] \in FieldValues(f)} :
               S \in SUBSET Range(FieldOrder)}

\* What invalid_metadata_action can be handed: a table, or no metadata.
InvalidInputs ==
    {[some |-> TRUE, table |-> t] : t \in Tables}
        \cup {[some |-> FALSE, table |-> NoValue]}

\* Two values of one type and the fields its diff compares.
DiffInputs ==
    UNION {{[schema |-> s, keys |-> k, old |-> o, now |-> n] :
                k \in DiffKeys(s), o \in SchemaValues(s), n \in SchemaValues(s)} :
               s \in SchemaNames}

call_restored_layer_action ==
    \E api \in {"commons", "shared"}, i \in DiffInputs :
        /\ call' = [fn |-> "restored_layer_action", api |-> api, args |-> i,
                    result |-> RestoredCallback(api, i.keys, i.old, i.now)]
        /\ UNCHANGED <<layers, ret, log, timer, fs, layer_data>>

call_invalid_metadata_action ==
    \E api \in {"commons", "shared"}, M \in SchemaNames, invalid \in InvalidInputs :
        /\ call' = [fn |-> "invalid_metadata_action", api |-> api,
                    args |-> [M |-> M, invalid |-> invalid],
                    result |-> InvalidCallback(api, M, invalid)]
        /\ UNCHANGED <<layers, ret, log, timer, fs, layer_data>>

call_try_from_str_migrations ==
    \E M \in SchemaNames, t \in Tables :
        /\ call' = [fn |-> "try_from_str_migrations", api |-> "magic_migrate",
                    args |-> [M |-> M, toml |-> to_string([some |-> TRUE, table |-> t]).doc],
                    result |-> try_from_str_migrations(
                                   M, to_string([some |-> TRUE, table |-> t]).doc)]
        /\ UNCHANGED <<layers, ret, log, timer, fs, layer_data>>

\* What the callbacks of an entry point return, over every input: the path
\* (which callback), the action and the cause.
Decisions(api) ==
    {[path |-> "restored_layer_action",
      decided |-> RestoredCallback(api, i.keys, i.old, i.now)] : i \in DiffInputs}
    \cup
    {[path |-> "invalid_metadata_action",
      decided |-> InvalidCallback(api, x[1], x[2])] : x \in SchemaNames \X InvalidInputs}

\* The rendering of an entry point's cause: Meta for CacheBuddy, CacheState
\* for cached_layer_builder.
Rendered(api, cause) ==
    IF api = "commons"
    THEN [as_ref |-> as_ref(cause), display |-> fmt(cause)]
    ELSE [as_ref |-> CacheState_as_ref(cause), display |-> CacheState_fmt(cause)]

\* cause.as_ref() and format!("{cause}") on a cause a callback returned; both
\* take &self, so the cause and the action are what they were.
call_as_ref ==
    \E api \in {"commons", "builder"} :
        \E d \in Decisions(api) :
            /\ call' = [fn |-> "as_ref", api |-> api,
                        args |-> [path |-> d.path, action |-> d.decided.action,
                                  self |-> d.decided.cause],
                        result |-> Rendered(api, d.decided.cause)
                                      @@ [action |-> d.decided.action,
                                          self |-> d.decided.cause]]
            /\ UNCHANGED <<layers, ret, log, timer, fs, layer_data>>

\* The entries a diff can consist of, and how many a list of them has here.
DiffEntries ==
    {"name (Schneems to not_richard)", "updated_at (unknown to today)",
     "value (hello to world)"}

MaxEntries == 3

EntryLists == UNION {[1..n -> DiffEntries] : n \in 0..MaxEntries}

\* SentenceList::new(&diff).to_string()
call_SentenceList ==
    \E list \in EntryLists :
        /\ call' = [fn |-> "SentenceList", api |-> "commons::display",
                    args |-> [list |-> list], result |-> SentenceList(list)]
        /\ UNCHANGED <<layers, ret, log, timer, fs, layer_data>>

\* cache_state(old.clone(), now) of RubyInstallLayer::existing_layer_strategy
call_cache_state ==
    \E old \in RubyInstallLayerMetadata, now \in RubyInstallLayerMetadata :
        /\ call' = [fn |-> "cache_state", api |-> "ruby_install_layer",
                    args |-> [old |-> old, now |-> now],
                    result |-> cache_state(old, now)]
        /\ UNCHANGED <<layers, ret, log, timer, fs, layer_data>>

NextFn ==
    \/ call_cache_state
    \/ call_SentenceList
    \/ call_restored_layer_action
    \/ call_invalid_metadata_action
    \/ call_try_from_str_migrations
    \/ call_as_ref

SpecFn == Init /\ [][NextFn]_vars

(***************************************************************************)
(* Properties.                                                             *)
(***************************************************************************)
\* What is on disk for the layer of the last call.
Disk == layers[ret.layer]

Called == ret.fn # "none"

\* C1: whenever an entry point (CacheBuddy::layer, diff_migrate_cached_layer,
\* cached_layer_write_metadata) returns Ok, the layer's persisted metadata is
\* the fresh metadata of that call, whatever was on disk before and whether
\* the layer was kept or emptied.
C1_UnconditionalOverwrite ==
    (Called /\ ret.ok) =>
        /\ Disk.exists /\ Disk.hasMeta
        /\ DocTable(Disk.doc) = ret.metadata
        /\ Deserialize(ret.M, Disk.doc) = [ok |-> TRUE, value |-> ret.metadata]

\* A kept layer whose old metadata differed from the fresh metadata.
C1_Witness ==
    /\ Called /\ ret.ok
    /\ ret.state.kind = "Restored"
    /\ ret.prior.hasMeta
    /\ DocTable(ret.prior.doc) # ret.metadata
    /\ DocTable(Disk.doc) = ret.metadata

\* The text a single changed field k is reported with.
ChangeText(k, old, now) ==
    "Clearing cache due to change: " \o k \o " (" \o old[k] \o " to " \o now[k] \o ")"

\* C2: the first build of a layer returns an empty layer with cause
\* NewlyCreated; a build that follows a successful build of the same
\* metadata type is decided against the value that build wrote: Restored,
\* rendering "Using cache", when no compared field changed, and otherwise
\* empty with cause RestoredLayerAction and a message naming the change from
\* the previous value to the fresh one.
C2_BuildSequence ==
    (Called /\ ret.ok) =>
        /\ ~ret.prev.any =>
              /\ ret.state.kind = "Empty"
              /\ ret.state.why = "NewlyCreated"
        /\ (ret.prev.any /\ ret.prev.ok /\ ret.prev.M = ret.M) =>
              IF \A i \in DOMAIN ret.keys :
                     ret.metadata[ret.keys[i]] = ret.prev.metadata[ret.keys[i]]
              THEN /\ ret.state.kind = "Restored"
                   /\ as_ref(ret.state.cause) = "Using cache"
              ELSE /\ ret.state.kind = "Empty"
                   /\ ret.state.why = "RestoredLayerAction"
                   /\ as_ref(ret.state.cause) =
                          ChangeText(ret.keys[1], ret.prev.metadata, ret.metadata)

\* The third build of test_cache_buddy: "hello" was written, "world" is fresh.
C2_Witness ==
    /\ Called /\ ret.ok
    /\ ret.prev.any /\ ret.prev.ok /\ ret.prev.M = ret.M
    /\ ret.prev.metadata = [value |-> "hello"]
    /\ ret.metadata = [value |-> "world"]
    /\ ret.state.why = "RestoredLayerAction"
    /\ as_ref(ret.state.cause) = "Clearing cache due to change: value (hello to world)"

IsRestoredCall == call.fn = "restored_layer_action"

\* C3: restored_layer_action (of cache_buddy and of layers::shared) returns
\* KeepLayer exactly when now.diff(old) is empty and DeleteLayer exactly when
\* it is not.
C3_DiffDecides ==
    IsRestoredCall =>
        /\ call.result.action \in {"KeepLayer", "DeleteLayer"}
        /\ call.result.action = "KeepLayer"
               <=> diff(call.args.keys, call.args.now, call.args.old) = <<>>
        /\ call.result.action = "DeleteLayer"
               <=> diff(call.args.keys, call.args.now, call.args.old) # <<>>

\* Kept although the two values differ (in a field the diff does not compare).
C3_Witness ==
    /\ IsRestoredCall
    /\ call.result.action = "KeepLayer"
    /\ call.args.old # call.args.now

\* C4: when the diff is empty, cache_buddy's restored_layer_action returns
\* Meta::Data carrying the old value, not the fresh one.
C4_ReadYourWrite ==
    (IsRestoredCall /\ call.api = "commons"
        /\ diff(call.args.keys, call.args.now, call.args.old) = <<>>) =>
        /\ call.result.cause.kind = "Data"
        /\ call.result.cause.data = call.args.old

\* Old and fresh differ in a field that is not compared; the old one is returned.
C4_Witness ==
    /\ IsRestoredCall /\ call.api = "commons"
    /\ call.args.schema = "PersonV2"
    /\ call.args.old.name = call.args.now.name
    /\ call.args.old.updated_at # call.args.now.updated_at
    /\ call.result.cause.kind = "Data"
    /\ call.result.cause.data = call.args.old
    /\ call.result.cause.data # call.args.now

\* The schemas of the chain that ends in M.
RECURSIVE ChainOf(_)
ChainOf(M) == IF TryFromOf(M) = M THEN {M} ELSE {M} \cup ChainOf(TryFromOf(M))

\* What the resolver makes of the metadata the last build found on disk.
PriorResolved == try_from_str_migrations(ret.M, ret.prior.doc)

\* The last build found metadata that is not of its type but migrates.
PriorMigrates ==
    /\ Called
    /\ ret.prior.exists /\ ret.prior.hasMeta
    /\ ~Deserialize(ret.M, ret.prior.doc).ok
    /\ \E s \in ChainOf(ret.M) : Deserialize(s, ret.prior.doc).ok
    /\ PriorResolved.some /\ PriorResolved.ok

\* C5: when the persisted metadata does not parse as the target type but
\* migrates to m, the metadata is replaced by m and the diff of the fresh
\* value against m decides: the layer is kept if and only if that diff is
\* empty, otherwise it is emptied with cause RestoredLayerAction.
C5_MigrateThenDiff ==
    PriorMigrates =>
        LET m == PriorResolved.value
            same == \A i \in DOMAIN ret.keys : ret.metadata[ret.keys[i]] = m[ret.keys[i]]
        IN  /\ ret.ok =>
                  /\ ret.trace = <<"invalid_metadata_action", "restored_layer_action">>
                  /\ ret.state.kind = "Restored" <=> same
                  /\ ret.state.kind = "Restored" <=> diff(ret.keys, ret.metadata, m) = <<>>
                  /\ ret.state.kind # "Restored" =>
                         /\ ret.state.kind = "Empty"
                         /\ ret.state.why = "RestoredLayerAction"
                  /\ ret.state.cause.kind = "Data" => ret.state.cause.data = m
            /\ (~ret.ok /\ ret.trace # <<>>) =>
                  IF same
                  THEN Disk.hasMeta /\ DocTable(Disk.doc) = m
                  ELSE ~Disk.hasMeta

\* PersonV1 {name: "Schneems"} on disk migrates, the fresh PersonV2 has
\* another name: the layer is emptied by the diff.
C5_Witness ==
    /\ PriorMigrates /\ ret.ok
    /\ PriorResolved.value = [name |-> "Schneems", updated_at |-> "unknown"]
    /\ ret.metadata.name = "not_richard"
    /\ ret.state.kind = "Empty"
    /\ ret.state.why = "RestoredLayerAction"

IsInvalidCall == call.fn = "invalid_metadata_action"

\* The TOML text of the invalid metadata of the last direct call.
CallToml == to_string(call.args.invalid).doc

\* PersonV1 data that the conversion to PersonV2 rejects.
Rejected ==
    /\ IsInvalidCall
    /\ call.args.M = "PersonV2"
    /\ call.args.invalid.some
    /\ DOMAIN call.args.invalid.table = {"name"}
    /\ call.args.invalid.table.name # "Schneems"

\* C6: when a conversion step rejects the old data, invalid_metadata_action
\* returns DeleteLayer with "Clearing cache due to metadata migration error: "
\* followed by the error's Display text; it never returns ReplaceMetadata.
C6_MigrationError ==
    /\ Rejected =>
          /\ call.result.action = "DeleteLayer"
          /\ call.result.cause.kind \in {"Message", "String"}
          /\ call.result.cause.text =
                 "Clearing cache due to metadata migration error: Not Richard"
    /\ (IsInvalidCall /\ call.args.invalid.some
            /\ try_from_str_migrations(call.args.M, CallToml).some
            /\ ~try_from_str_migrations(call.args.M, CallToml).ok) =>
          /\ call.result.action = "DeleteLayer"
          /\ call.result.cause.text =
                 "Clearing cache due to metadata migration error: "
                     \o ErrorDisplay(try_from_str_migrations(call.args.M, CallToml).error)

\* The second call of test_invalid_metadata_action.
C6_Witness ==
    /\ Rejected
    /\ call.api = "commons"
    /\ call.args.invalid.table.name = "not_richard"
    /\ call.result.action = "DeleteLayer"
    /\ as_ref(call.result.cause) =
           "Clearing cache due to metadata migration error: Not Richard"

\* The lines `key = "value"` of a table, a newline between two lines.
RECURSIVE TomlLines(_, _)
TomlLines(table, keys) ==
    IF keys = <<>> THEN ""
    ELSE IF Head(keys) \notin DOMAIN table THEN TomlLines(table, Tail(keys))
    ELSE LET rest == TomlLines(table, Tail(keys))
         IN  Head(keys) \o " = \"" \o table[Head(keys)] \o "\""
                 \o (IF rest = "" THEN "" ELSE "\n" \o rest)

\* A table has the shape of a struct.
Matches(s, table) ==
    /\ Range(SchemaFields(s)) \subseteq DOMAIN table
    /\ DenyUnknownFields(s) => DOMAIN table = Range(SchemaFields(s))

\* The data of the last direct call deserializes as no schema of the chain.
Exhausted ==
    /\ IsInvalidCall
    /\ call.args.invalid.some
    /\ \A s \in ChainOf(call.args.M) : ~Matches(s, call.args.invalid.table)

\* C7: when the data deserializes as no schema of the chain,
\* invalid_metadata_action returns DeleteLayer with
\* "Clearing cache due to invalid metadata (<the TOML text, trimmed>)".
C7_ChainExhausted ==
    Exhausted =>
        /\ call.result.action = "DeleteLayer"
        /\ call.result.cause.kind \in {"Message", "String"}
        /\ call.result.cause.text =
               "Clearing cache due to invalid metadata ("
                   \o TomlLines(call.args.invalid.table, FieldOrder) \o ")"

\* The third call of test_invalid_metadata_action.
C7_Witness ==
    /\ Exhausted
    /\ call.args.M = "PersonV2"
    /\ call.args.invalid.table = [value |-> "world"]
    /\ call.result.action = "DeleteLayer"
    /\ as_ref(call.result.cause) =
           "Clearing cache due to invalid metadata (value = \"world\")"

IsResolverCall == call.fn = "try_from_str_migrations"

\* The four outcomes of the resolver, as shapes of its result.
DirectSuccess(r) ==
    r.some /\ r.ok /\ r.steps = <<>> /\ r.error = NoError /\ r.value # NoValue

MigratedSuccess(r) ==
    r.some /\ r.ok /\ r.steps # <<>> /\ r.error = NoError /\ r.value # NoValue

MigrationFailure(r) == r.some /\ ~r.ok /\ r.error # NoError /\ r.value = NoValue

Unparseable(r) == ~r.some /\ ~r.ok /\ r.error = NoError /\ r.value = NoValue

OutcomesOf(r) ==
    {o \in {"DirectSuccess", "MigratedSuccess", "MigrationFailure", "Unparseable"} :
        \/ o = "DirectSuccess" /\ DirectSuccess(r)
        \/ o = "MigratedSuccess" /\ MigratedSuccess(r)
        \/ o = "MigrationFailure" /\ MigrationFailure(r)
        \/ o = "Unparseable" /\ Unparseable(r)}

\* C8: for every input the resolver's result is exactly one of direct
\* success, migrated success, migration failure and unparseable, and
\* invalid_metadata_action maps each to one (action, cause) pair:
\* ReplaceMetadata with the value for the two successes, DeleteLayer with the
\* migration error for a failure, DeleteLayer with the invalid metadata for
\* unparseable data.
C8_OneOutcome ==
    /\ IsResolverCall =>
          /\ Cardinality(OutcomesOf(call.result)) = 1
          /\ DirectSuccess(call.result) <=> Deserialize(call.args.M, call.args.toml).ok
          /\ Unparseable(call.result) <=>
                 \A s \in ChainOf(call.args.M) : ~Deserialize(s, call.args.toml).ok
    /\ (IsInvalidCall /\ call.args.invalid.some) =>
          LET r == try_from_str_migrations(call.args.M, CallToml)
          IN  /\ Cardinality(OutcomesOf(r)) = 1
              /\ (DirectSuccess(r) \/ MigratedSuccess(r)) =>
                     /\ call.result.action = "ReplaceMetadata"
                     /\ call.result.metadata = r.value
                     /\ as_ref(call.result.cause) \in {"Using cache", "Replaced metadata"}
              /\ MigrationFailure(r) =>
                     /\ call.result.action = "DeleteLayer"
                     /\ as_ref(call.result.cause) =
                            "Clearing cache due to metadata migration error: "
                                \o ErrorDisplay(r.error)
              /\ Unparseable(r) =>
                     /\ call.result.action = "DeleteLayer"
                     /\ as_ref(call.result.cause) =
                            "Clearing cache due to invalid metadata ("
                                \o TomlLines(call.args.invalid.table, FieldOrder) \o ")"

\* A migrated success: the one outcome that needs a conversion.
C8_Witness ==
    /\ IsResolverCall
    /\ OutcomesOf(call.result) = {"MigratedSuccess"}
    /\ ~Deserialize(call.args.M, call.args.toml).ok

Absent == Called /\ ~ret.prior.exists

\* C11: a build that finds no layer on disk calls neither
\* invalid_metadata_action (the migration resolver) nor restored_layer_action
\* (the diff) and, when it returns Ok, returns an empty layer with cause
\* NewlyCreated that carries no message; every empty layer returned for a
\* layer that was on disk has another cause, with a message.
C11_NewlyCreated ==
    /\ Absent => ret.trace = <<>>
    /\ (Absent /\ ret.ok) =>
          /\ ret.state.kind = "Empty"
          /\ ret.state.why = "NewlyCreated"
          /\ ret.state.cause = NoCause
    /\ (Called /\ ret.ok /\ ret.prior.exists /\ ret.state.kind = "Empty") =>
          /\ ret.state.why \in {"RestoredLayerAction", "InvalidMetadataAction"}
          /\ ret.state.cause.kind \in {"Message", "String"}
          /\ ret.state.cause.text # ""
    /\ (Called /\ ret.ok /\ ret.state.why = "NewlyCreated") => ~ret.prior.exists

\* The first build of test_cache_buddy: TestMetadata {value: "hello"}, nothing on disk.
C11_Witness ==
    /\ Absent /\ ret.ok
    /\ ret.fn = "CacheBuddy::layer"
    /\ ret.metadata = [value |-> "hello"]
    /\ ret.state.why = "NewlyCreated"
    /\ ret.trace = <<>>
    /\ Disk.hasMeta

\* The last call went through CacheBuddy::layer and returned a layer state.
BuddyReturned ==
    Called /\ ret.ok /\ ret.fn \in {"CacheBuddy::layer", "diff_migrate_cached_layer"}

\* The message that explains why the layer the last call found was emptied.
Explanation ==
    IF ~ret.prior.hasMeta
    THEN "Clearing cache due to invalid metadata serialization error: unsupported None value"
    ELSE IF PriorResolved.some /\ PriorResolved.ok
    THEN LET d == diff(ret.keys, ret.metadata, PriorResolved.value)
         IN  "Clearing cache due to " \o (IF Len(d) > 1 THEN "changes" ELSE "change")
                 \o ": " \o SentenceList(d)
    ELSE IF PriorResolved.some
    THEN "Clearing cache due to metadata migration error: "
             \o ErrorDisplay(PriorResolved.error)
    ELSE "Clearing cache due to invalid metadata ("
             \o TomlLines(DocTable(ret.prior.doc), FieldOrder) \o ")"

\* C12: in every layer state CacheBuddy::layer returns, a cause Meta::Data
\* comes only with a restored layer, and a layer that was on disk and was
\* emptied comes with a Meta::Message whose text is not empty and says why:
\* the changes, the migration error or the invalid metadata.
C12_ClearedWithExplanation ==
    BuddyReturned =>
        /\ ret.state.cause.kind = "Data" => ret.state.kind = "Restored"
        /\ ret.state.kind = "Restored" => ~(ret.state.cause.kind = "Message")
        /\ (ret.prior.exists /\ ret.state.kind = "Empty") =>
              /\ ret.state.why \in {"RestoredLayerAction", "InvalidMetadataAction"}
              /\ ret.state.cause.kind = "Message"
              /\ ret.state.cause.text # ""
              /\ ret.state.cause.text = Explanation
              /\ ret.state.cause.data = NoValue

\* A layer with a rejected PersonV1 on disk, emptied by invalid_metadata_action.
C12_Witness ==
    /\ BuddyReturned
    /\ ret.prior.exists /\ ret.prior.hasMeta
    /\ ret.state.kind = "Empty"
    /\ ret.state.why = "InvalidMetadataAction"
    /\ ret.state.cause =
           MetaMessage("Clearing cache due to metadata migration error: Not Richard")

IsRenderCall == call.fn = "as_ref"

\* Every message the decision functions format over the inputs.
ClearMessages ==
    {"Clearing cache due to metadata migration error: Not Richard",
     "Clearing cache due to invalid metadata serialization error: unsupported None value"}
    \cup {"Clearing cache due to invalid metadata (" \o TomlLines(t, FieldOrder) \o ")" :
              t \in Tables}
    \cup {"Clearing cache due to " \o (IF Len(diff(i.keys, i.now, i.old)) > 1
                                         THEN "changes" ELSE "change")
              \o ": " \o SentenceList(diff(i.keys, i.now, i.old)) :
              i \in {j \in DiffInputs : diff(j.keys, j.now, j.old) # <<>>}}

\* C13: as_ref and Display of a Meta (CacheBuddy) or CacheState
\* (cached_layer_builder) return "Using cache" for the Data variant and the
\* carried string for the Message variant, whether the value comes from
\* restored_layer_action or invalid_metadata_action; the value and the action
\* are the same after rendering as before.
C13_UniformRendering ==
    IsRenderCall =>
        /\ call.args.self.kind \in {"Data", "Message"}
        /\ call.args.self.kind = "Data" =>
              /\ call.result.as_ref = "Using cache"
              /\ call.result.display = "Using cache"
        /\ call.args.self.kind = "Message" =>
              /\ call.result.as_ref = call.args.self.text
              /\ call.result.display = call.args.self.text
              /\ call.args.self.text \in ClearMessages \cup {"Using cache"}
        /\ call.result.display = call.result.as_ref
        /\ call.result.self = call.args.self
        /\ call.result.action = call.args.action

\* A Meta::Message from the migration-error path, rendered as its text.
C13_Witness ==
    /\ IsRenderCall
    /\ call.api = "commons"
    /\ call.args.path = "invalid_metadata_action"
    /\ call.args.action = "DeleteLayer"
    /\ call.args.self = MetaMessage("Clearing cache due to metadata migration error: Not Richard")
    /\ call.result.as_ref = "Clearing cache due to metadata migration error: Not Richard"
    /\ call.result.display = call.result.as_ref

\* What precedes entry i of a list of n: nothing, " and " before the last,
\* ", " before the others.
Separator(i, n) == IF i = 1 THEN "" ELSE IF i = n THEN " and " ELSE ", "

\* The entries i, i+1, .. of a list in order, each once, after its separator.
RECURSIVE Sentence(_, _)
Sentence(list, i) ==
    IF i > Len(list) THEN ""
    ELSE Separator(i, Len(list)) \o list[i] \o Sentence(list, i + 1)

\* The diff of the last direct call of restored_layer_action.
CallDiff == diff(call.args.keys, call.args.now, call.args.old)

\* C14: for a diff that is not empty restored_layer_action (of cache_buddy and
\* of layers::shared) reports "Clearing cache due to change: " for one entry
\* and "Clearing cache due to changes: " for more, followed by the entries of
\* the diff in order, each once, with ", " between them and " and " before
\* the last; SentenceList produces that list for every list of entries.
C14_ChangeMessage ==
    /\ (IsRestoredCall /\ CallDiff # <<>>) =>
          /\ call.result.action = "DeleteLayer"
          /\ call.result.cause.text =
                 (IF Len(CallDiff) = 1
                  THEN "Clearing cache due to change: "
                  ELSE "Clearing cache due to changes: ") \o Sentence(CallDiff, 1)
    /\ (call.fn = "SentenceList" /\ call.args.list # <<>>) =>
          call.result = Sentence(call.args.list, 1)

\* Two fields of a PersonV2 changed.
C14_Witness ==
    /\ IsRestoredCall
    /\ Len(CallDiff) = 2
    /\ call.result.cause.text =
           "Clearing cache due to changes: name (Schneems to not_richard)"
               \o " and updated_at (unknown to today)"

\* C15: when cached_layer fails (the layer cannot be read) or write_metadata
\* fails (the fresh metadata cannot be serialized or written), the entry
\* point returns Err: the caller gets no layer state, in particular no empty
\* layer with a cause; a failed read leaves the layer as it was and calls no
\* callback. Without a failure the entry point returns Ok.
C15_ErrorsPropagate ==
    Called =>
        /\ ret.fault # "none" =>
              /\ ~ret.ok
              /\ ret.state.kind = "None"
              /\ ret.state.kind # "Empty"
              /\ ret.state.cause = NoCause
        /\ ret.fault = "cached_layer" =>
              /\ Disk = ret.prior
              /\ ret.trace = <<>>
        /\ ret.fault = "none" => ret.ok /\ ret.state.kind \in {"Empty", "Restored"}

\* write_metadata fails after the diff had the layer deleted: Err, although
\* the old layer is gone.
C15_Witness ==
    /\ Called
    /\ ret.fn = "CacheBuddy::layer"
    /\ ret.fault = "write_metadata"
    /\ ~ret.ok
    /\ ret.state.kind = "None"
    /\ ret.trace = <<"restored_layer_action">>
    /\ ret.prior.hasMeta /\ ~Disk.hasMeta

\* C16: for equal old and fresh metadata the diff of every metadata type of
\* the tests is empty, so restored_layer_action keeps the layer, and
\* cache_state returns Changed::Nothing carrying the version.
C16_DiffIdempotent ==
    /\ (IsRestoredCall /\ call.args.old = call.args.now) =>
          /\ CallDiff = <<>>
          /\ diff(call.args.keys, call.args.old, call.args.now) = <<>>
          /\ call.result.action = "KeepLayer"
    /\ (call.fn = "cache_state" /\ call.args.old = call.args.now) =>
          /\ call.result.changed = "Nothing"
          /\ call.result.fields = <<call.args.now.version>>

\* TestMetadata {value: "hello"} against itself, as in the second build of
\* test_cache_buddy.
C16_Witness ==
    /\ IsRestoredCall
    /\ call.args.schema = "TestMetadata"
    /\ call.args.keys = <<"value">>
    /\ call.args.old = [value |-> "hello"]
    /\ call.args.now = call.args.old
    /\ call.result.action = "KeepLayer"

\* The callbacks the entry point of the last call passes to cached_layer.
ApiOf(fn) ==
    IF fn = "cached_layer_builder" THEN "builder"
    ELSE IF fn = "cached_layer_write_metadata" THEN "shared"
    ELSE "commons"

FlagChoices == [build : BOOLEAN, launch : BOOLEAN]

\* What the last call decides and writes when it is given the flags `types`
\* and finds its layer stored with the flags `found`.
Redecided(types, found) ==
    LET h == handle_cached_layer(ApiOf(ret.fn), ret.M, ret.keys, ret.metadata, types,
                                 [ret.prior EXCEPT !.build = found.build,
                                                   !.launch = found.launch],
                                 MaxReentry)
    IN  [state |-> h.state, trace |-> h.trace,
         written |-> write_metadata(h.disk, ret.M, ret.metadata).doc]

\* C17: what an entry point returns (layer state with its cause and the
\* recovered value), the callbacks it calls and the metadata it writes are the
\* same for every choice of build and launch, given or found on disk; the
\* layer is stored with the flags the call was given, where an unset flag of
\* diff_migrate_cached_layer and cached_layer_builder counts as true.
C17_FlagsOrthogonal ==
    Called =>
        /\ ret.ok =>
              \A types \in FlagChoices, found \in FlagChoices :
                  /\ ret.state = Redecided(types, found).state
                  /\ ret.trace = Redecided(types, found).trace
                  /\ Disk.doc = Redecided(types, found).written
        /\ ret.fault # "cached_layer" =>
              /\ Disk.build = ret.types.build
              /\ Disk.launch = ret.types.launch
        /\ ret.types.build = (IF ret.given.build.some THEN ret.given.build.v ELSE TRUE)
        /\ ret.types.launch = (IF ret.given.launch.some THEN ret.given.launch.v ELSE TRUE)
        /\ ret.fn = "CacheBuddy::layer" => ret.given.build.some /\ ret.given.launch.some

\* diff_migrate_cached_layer with .build(false) and launch left unset keeps a
\* layer that was stored with build = true.
C17_Witness ==
    /\ Called /\ ret.ok
    /\ ret.fn = "diff_migrate_cached_layer"
    /\ ret.given = [build |-> Some(FALSE), launch |-> None]
    /\ ret.types = [build |-> FALSE, launch |-> TRUE]
    /\ ret.prior.exists /\ ret.prior.build
    /\ ret.state.kind = "Restored"
    /\ ~Disk.build /\ Disk.launch

\* C18: a call for one layer leaves every other layer of the layers
\* directory as it was (directory, flags and metadata), and what it returns
\* is decided by that layer's own stored state and the call's arguments
\* alone, whatever calls for other layers came before.
C18_LayerIndependence ==
    [][/\ \A n \in AllLayerNames : n # ret'.layer => layers'[n] = layers[n]
       /\ ret'.prior = layers[ret'.layer]
       /\ ret'.ok =>
             LET h == handle_cached_layer(ApiOf(ret'.fn), ret'.M, ret'.keys,
                                          ret'.metadata, ret'.types,
                                          layers[ret'.layer], MaxReentry)
             IN  /\ ret'.state = h.state
                 /\ ret'.trace = h.trace
                 /\ layers'[ret'.layer] = write_metadata(h.disk, ret'.M, ret'.metadata)]_vars

\* The first build of cache_my_input comes after a build of testing with
\* another value: it is NewlyCreated, and testing keeps its metadata.
C18_Witness ==
    /\ Called /\ ret.ok
    /\ ret.layer = "cache_my_input"
    /\ ret.metadata = [value |-> "world"]
    /\ ret.state.why = "NewlyCreated"
    /\ ret.prev.any /\ ret.prev.ok
    /\ layers["testing"].hasMeta
    /\ DocTable(layers["testing"].doc) = [value |-> "hello"]

\* A message as the entry point's cause type carries it.
CauseMessage(api, text) ==
    IF api = "commons" THEN MetaMessage(text) ELSE PlainString(text)

\* The (action, cause) of restored_layer_action as a function of its
\* arguments alone.
RestoredOf(api, args) ==
    LET d == diff(args.keys, args.now, args.old)
    IN  IF d = <<>>
        THEN [action |-> "KeepLayer",
              cause |-> IF api = "commons" THEN MetaData(args.old)
                                           ELSE PlainString("Using cache")]
        ELSE [action |-> "DeleteLayer",
              cause |-> CauseMessage(api,
                            (IF Len(d) = 1 THEN "Clearing cache due to change: "
                                           ELSE "Clearing cache due to changes: ")
                                \o Sentence(d, 1))]

\* The same for invalid_metadata_action.
InvalidOf(api, args) ==
    LET r == try_from_str_migrations(args.M, to_string(args.invalid).doc)
    IN  IF ~args.invalid.some
        THEN [action |-> "DeleteLayer", metadata |-> NoValue,
              cause |-> CauseMessage(api,
                  "Clearing cache due to invalid metadata serialization error: "
                      \o "unsupported None value")]
        ELSE IF r.some /\ r.ok
        THEN [action |-> "ReplaceMetadata", metadata |-> r.value,
              cause |-> IF api = "commons" THEN MetaData(r.value)
                                           ELSE PlainString("Replaced metadata")]
        ELSE IF r.some
        THEN [action |-> "DeleteLayer", metadata |-> NoValue,
              cause |-> CauseMessage(api,
                  "Clearing cache due to metadata migration error: Not Richard")]
        ELSE [action |-> "DeleteLayer", metadata |-> NoValue,
              cause |-> CauseMessage(api,
                  "Clearing cache due to invalid metadata ("
                      \o TomlLines(args.invalid.table, FieldOrder) \o ")")]

\* C19: what restored_layer_action(old, now) and
\* invalid_metadata_action(invalid) return is a function of their arguments
\* alone, the same whatever was called before, and a call of either leaves
\* the layers directory and the last build's result untouched.
C19_PureDecisions ==
    /\ IsRestoredCall => call.result = RestoredOf(call.api, call.args)
    /\ IsInvalidCall => call.result = InvalidOf(call.api, call.args)
    /\ (IsRestoredCall \/ IsInvalidCall) =>
          /\ layers = [n \in AllLayerNames |-> NoLayer]
          /\ ret = NoRet

\* The last call of test_invalid_metadata_action, with layers::shared's function.
C19_Witness ==
    /\ IsInvalidCall
    /\ call.api = "shared"
    /\ call.args.M = "PersonV2"
    /\ call.args.invalid = [some |-> TRUE, table |-> [value |-> "world"]]
    /\ call.result = InvalidOf("shared", call.args)
    /\ call.result.action = "DeleteLayer"
    /\ layers = [n \in AllLayerNames |-> NoLayer]

\* The callbacks a call of cached_layer can make, in order: none for a layer
\* that is absent, the diff for parseable metadata, the resolver for
\* unparseable metadata, the resolver and then the diff after a migration.
DecisionPaths ==
    {<<>>, <<"restored_layer_action">>, <<"invalid_metadata_action">>,
     <<"invalid_metadata_action", "restored_layer_action">>}

\* How often a callback occurs in the trace of the last call.
Occurrences(fn) == Cardinality({i \in DOMAIN ret.trace : ret.trace[i] = fn})

\* C20: every call of an entry point that reads the layer decides once and
\* ends: it calls no callback for an absent layer and at least one for a
\* layer on disk, the diff at most once and last, the resolver at most once;
\* the metadata a migration wrote parses as the target type when it is read
\* again; a call that returns Ok returns one layer state, Empty or Restored.
C20_DecidesOnce ==
    (Called /\ ret.fault # "cached_layer") =>
        /\ ret.trace \in DecisionPaths
        /\ Occurrences("restored_layer_action") <= 1
        /\ Occurrences("invalid_metadata_action") <= 1
        /\ ret.trace = <<>> <=> ~ret.prior.exists
        /\ ret.state.kind # "Overflow"
        /\ ret.ok => ret.state.kind \in {"Empty", "Restored"}
        /\ ret.ok => (ret.state.kind = "Restored" =>
                         ret.trace[Len(ret.trace)] = "restored_layer_action")
        /\ Len(ret.trace) = 2 =>
              /\ PriorMigrates
              /\ Deserialize(ret.M, SerializeStruct(ret.M, PriorResolved.value)) =
                     [ok |-> TRUE, value |-> PriorResolved.value]

\* A PersonV1 on disk is migrated, read again as PersonV2 and kept.
C20_Witness ==
    /\ Called /\ ret.ok
    /\ ret.M = "PersonV2"
    /\ DocKeys(ret.prior.doc) = {"name"}
    /\ ret.trace = <<"invalid_metadata_action", "restored_layer_action">>
    /\ ret.state.kind = "Restored"

(***************************************************************************)
(* A build interrupted while it writes the metadata.                       *)
(***************************************************************************)
\* What an interrupted write of <layer>.toml can leave: the file is created
\* empty and filled front to back, so the layer is left with no metadata
\* table or with the first lines of the new one. (A cut inside a line leaves
\* a file that is no TOML: the next cached_layer cannot read it, which is
\* the fault "cached_layer" of that call.)
Torn(layer, M, metadata) ==
    LET doc == SerializeStruct(M, metadata)
    IN  {[layer EXCEPT !.hasMeta = FALSE, !.doc = <<>>]} \cup
        {[layer EXCEPT !.hasMeta = TRUE, !.doc = SubSeq(doc, 1, k)] :
            k \in 0..(Len(doc) - 1)}

\* CacheBuddy::layer whose process dies inside layer_ref.write_metadata:
\* cached_layer has acted, the write is cut short, nothing is returned.
CacheBuddy_layer_crash(names, fresh) ==
    \E name \in names, m \in fresh :
        LET types == [build |-> TRUE, launch |-> TRUE]
            h == handle_cached_layer("commons", m.schema, m.keys, m.metadata,
                                     types, layers[name], MaxReentry)
        IN  /\ \E torn \in Torn(h.disk, m.schema, m.metadata) :
                    layers' = [layers EXCEPT ![name] = torn]
            /\ ret' = [fn |-> "CacheBuddy::layer", layer |-> name, M |-> m.schema,
                       keys |-> m.keys, metadata |-> m.metadata, fault |-> "crash",
                       given |-> [build |-> Some(TRUE), launch |-> Some(TRUE)],
                       types |-> types, prior |-> layers[name],
                       prev |-> [any |-> ret.fn # "none", ok |-> ret.ok, M |-> ret.M,
                                 metadata |-> ret.metadata],
                       ok |-> FALSE,
                       state |-> [kind |-> "None", why |-> "None", cause |-> NoCause],
                       trace |-> h.trace]
            /\ UNCHANGED <<call, log, timer, fs, layer_data>>

\* Layers built with the newest struct of their chain.
CrashFreshMetadata == {m \in TestFreshMetadata : m.schema # "PersonV1"}

\* Builds of one layer, any of which may die while writing the metadata.
NextCrash ==
    \/ CacheBuddy_layer(LayerNames, {TRUE}, CrashFreshMetadata)
    \/ CacheBuddy_layer_crash(LayerNames, CrashFreshMetadata)

SpecCrash == Init /\ [][NextCrash]_vars

C21_UnparseableRecreates ==
    [][(/\ ret.fault = "crash" /\ ret'.ok
        /\ \/ ~layers[ret'.layer].hasMeta
           \/ ~try_from_str_migrations(ret'.M, layers[ret'.layer].doc).some) =>
            /\ ret'.state.kind = "Empty"
            /\ ret'.state.why = "InvalidMetadataAction"
            /\ layers'[ret'.layer].doc = SerializeStruct(ret'.M, ret'.metadata)]_vars

fmt_details(contents) == "(" \o contents \o ")"

fmt_header(contents) == "\n# " \o contents

fmt_section(topic) == "- " \o topic

fmt_step(contents) == "  - " \o contents

background_timer_start == " ."

background_timer_tick == "."

background_timer_end == ". "

cmd_stream_format(input) == "      " \o input

\* {miliseconds:0>3}
Pad3(n) ==
    IF n < 10 THEN "00" \o ToString(n)
    ELSE IF n < 100 THEN "0" \o ToString(n) ELSE ToString(n)

\* fmt::time::human of a duration given in milliseconds.
human(duration) ==
    LET as_secs == duration \div 1000
        hours == (as_secs \div 3600) % 60
        minutes == (as_secs \div 60) % 60
        seconds == as_secs % 60
        miliseconds == duration % 1000
    IN  IF hours > 0
        THEN ToString(hours) \o "h " \o ToString(minutes) \o "m " \o
             ToString(seconds) \o "s"
        ELSE IF minutes > 0
        THEN ToString(minutes) \o "m " \o ToString(seconds) \o "s"
        ELSE IF seconds > 0 \/ miliseconds > 100
        THEN ToString(seconds) \o "." \o Pad3(miliseconds) \o "s"
        ELSE "< 0.1s"

(***************************************************************************)
(* commons::output::log: BuildLog<T, W> and the handles of its states.     *)
(* log.live holds the handles that have not been moved out of; log.clock   *)
(* is the time in seconds, one second passing with every step.             *)
(***************************************************************************)
\* How many steps (method calls, steps of the timer thread) a logger sees.
MaxClock == 8

\* How often the timer thread's recv_timeout runs out before it is stopped.
MaxTicks == 1

\* How many writers StreamLogger::io hands out during one stream.
MaxWriters == 1

\* BuildLog { io, state: PhantomData::<T>, started }; io is log.io.
BuildLog(state, started) == [id |-> log.clock + 1, state |-> state, started |-> started]

\* Elapsed time of an Instant, in milliseconds.
elapsed(instant) == (log.clock - instant) * 1000

\* A method called on the handle self: it writes, and leaves the handles
\* out (self itself for a method taking &mut self).
Method(name, self, out, written) ==
    /\ log.clock < MaxClock
    /\ self \in log.live
    /\ log' = [log EXCEPT !.live = (@ \ {self}) \cup out,
                          !.io = @ \o written,
                          !.clock = @ + 1,
                          !.last = [method |-> name, self |-> {self}, out |-> out]]
    /\ UNCHANGED <<layers, ret, call, timer, fs, layer_data>>

\* The texts the test gives the logger.
BuildpackNames == {"Heroku Ruby Buildpack"}

Topics == {"Hello world"}

Steps == {"Installing"}

\* impl Logger for BuildLog<state::NotStarted, W>
buildpack_name ==
    \E self \in log.live, name \in BuildpackNames :
        /\ self.state = "NotStarted"
        /\ Method("buildpack_name", self, {BuildLog("Started", self.started)},
                  <<fmt_header(name) \o "\n\n">>)

without_buildpack_name ==
    \E self \in log.live :
        /\ self.state = "NotStarted"
        /\ Method("without_buildpack_name", self,
                  {BuildLog("Started", self.started)}, <<>>)

\* impl StartedLogger for BuildLog<state::Started, W>
section ==
    \E self \in log.live, s \in Topics :
        /\ self.state = "Started"
        /\ Method("section", self, {BuildLog("InSection", self.started)},
                  <<fmt_section(s) \o "\n">>)

finish_logging ==
    \E self \in log.live :
        /\ self.state = "Started"
        /\ Method("finish_logging", self, {BuildLog("Stopped", self.started)},
                  <<fmt_section("Done " \o
                        fmt_details("finished in " \o human(elapsed(self.started))))
                    \o "\n">>)

\* impl SectionLogger for BuildLog<state::InSection, W>
step ==
    \E self \in log.live, s \in Steps :
        /\ self.state = "InSection"
        /\ Method("step", self, {self}, <<fmt_step(s) \o "\n">>)

step_and ==
    \E self \in log.live, s \in Steps :
        /\ self.state = "InSection"
        /\ Method("step_and", self, {BuildLog("InSection", self.started)},
                  <<fmt_step(s) \o "\n">>)

\* An end_section that stops the logger.
end_section_stops ==
    \E self \in log.live :
        /\ self.state = "InSection"
        /\ Method("end_section", self, {BuildLog("Stopped", self.started)}, <<>>)

end_section ==
    \E self \in log.live :
        /\ self.state = "InSection"
        /\ Method("end_section", self, {BuildLog("Started", self.started)}, <<>>)

\* step_timed: the writer goes into an Arc<Mutex<..>> shared with the timer
\* thread that start_timer spawns; the thread has the text to write.
step_timed ==
    \E self \in log.live, s \in Steps :
        /\ self.state = "InSection"
        /\ log.clock < MaxClock
        /\ log' = [log EXCEPT
                !.live = (@ \ {self}) \cup
                         {[id |-> log.clock + 1, state |-> "FinishTimedStep",
                           build_timer |-> self.started, step_started |-> log.clock]},
                !.clock = @ + 1,
                !.background = [pc |-> "start", stop |-> FALSE, ticks |-> 0,
                                start |-> fmt_step(s \o background_timer_start)],
                !.last = [method |-> "step_timed", self |-> {self},
                          out |-> {[id |-> log.clock + 1, state |-> "FinishTimedStep",
                                    build_timer |-> self.started,
                                    step_started |-> log.clock]}]]
        /\ UNCHANGED <<layers, ret, call, timer, fs, layer_data>>

\* The timer thread of start_timer: it writes the start text and a tick,
\* then a tick whenever recv_timeout runs out, and the end text once the
\* stop message has arrived.
timer_thread ==
    /\ log.background.pc \in {"start", "recv"}
    /\ \/ /\ log.background.pc = "start"
          /\ log' = [log EXCEPT !.io = @ \o <<log.background.start,
                                              background_timer_tick>>,
                                !.background.pc = "recv"]
       \/ /\ log.background.pc = "recv" /\ log.background.stop
          /\ log' = [log EXCEPT !.io = @ \o <<background_timer_end>>,
                                !.background.pc = "ended"]
       \/ /\ log.background.pc = "recv" /\ ~log.background.stop
          /\ log.background.ticks < MaxTicks
          /\ log' = [log EXCEPT !.io = @ \o <<background_timer_tick>>,
                                !.background.ticks = @ + 1]
    /\ UNCHANGED <<layers, ret, call, timer, fs, layer_data>>

\* impl TimedStepLogger for FinishTimedStep<W>: self.background.stop()
\* sends the stop message and waits for the thread ..
finish_timed_step_stop ==
    \E self \in log.live :
        /\ self.state = "FinishTimedStep"
        /\ ~log.background.stop
        /\ log.clock < MaxClock
        /\ log' = [log EXCEPT !.background.stop = TRUE, !.clock = @ + 1]
        /\ UNCHANGED <<layers, ret, call, timer, fs, layer_data>>

\* Arc::strong_count(&arc_io): the handle's own reference, the clone the
\* timer thread owns until it returns, and one per LockedWriter alive.
strong_count ==
    1 + (IF log.background.pc \in {"start", "recv"} THEN 1 ELSE 0) + log.writers

\* .. then Arc::try_unwrap(self.arc_io).expect(..) takes the writer back,
\* panicking if another reference is left, and the duration is written.
try_unwrap_and_finish(self) ==
    /\ log.clock < MaxClock
    /\ IF strong_count > 1
       THEN log' = [log EXCEPT
                !.live = @ \ {self},
                !.clock = @ + 1,
                !.last = [method |-> "finish_timed_step", self |-> {self},
                          out |-> {}]]
       ELSE log' = [log EXCEPT
                !.live = (@ \ {self}) \cup {BuildLog("InSection", self.build_timer)},
                !.io = @ \o <<fmt_details(human(elapsed(self.step_started))) \o "\n">>,
                !.clock = @ + 1,
                !.background = NoBackground,
                !.last = [method |-> "finish_timed_step", self |-> {self},
                          out |-> {BuildLog("InSection", self.build_timer)}]]
    /\ UNCHANGED <<layers, ret, call, timer, fs, layer_data>>

\* A finish_timed_step that sends the stop message and does not wait for
\* the thread.
finish_timed_step_unjoined ==
    \E self \in log.live :
        /\ self.state = "FinishTimedStep"
        /\ log.background.stop
        /\ try_unwrap_and_finish(self)

\* .. stop() returns once the thread is joined ..
finish_timed_step ==
    \E self \in log.live :
        /\ self.state = "FinishTimedStep"
        /\ log.background.stop /\ log.background.pc = "ended"
        /\ try_unwrap_and_finish(self)

\* step_timed_stream: self.step(s), then StreamTimed { arc_io, started:
\* Instant::now(), build_timer: self.started } and stream.start().
step_timed_stream ==
    \E self \in log.live, s \in Steps :
        /\ self.state = "InSection"
        /\ Method("step_timed_stream", self,
                  {[id |-> log.clock + 1, state |-> "StreamTimed",
                    started |-> log.clock, build_timer |-> self.started]},
                  <<fmt_step(s) \o "\n", "\n">>)

\* impl StreamLogger for StreamTimed<W>: io() hands out a LockedWriter over
\* a clone of the Arc.
io ==
    \E self \in log.live :
        /\ self.state = "StreamTimed"
        /\ log.writers < MaxWriters
        /\ log.clock < MaxClock
        /\ log' = [log EXCEPT !.writers = @ + 1, !.clock = @ + 1,
                              !.last = [method |-> "io", self |-> {self},
                                        out |-> {self}]]
        /\ UNCHANGED <<layers, ret, call, timer, fs, layer_data>>

\* A line of the command's output written through a LockedWriter.
LockedWriter_write ==
    /\ log.writers > 0
    /\ log.clock < MaxClock
    /\ log' = [log EXCEPT !.io = @ \o <<cmd_stream_format("hello world\n")>>,
                          !.clock = @ + 1]
    /\ UNCHANGED <<layers, ret, call, timer, fs, layer_data>>

\* A LockedWriter dropped.
LockedWriter_drop ==
    /\ log.writers > 0
    /\ log' = [log EXCEPT !.writers = @ - 1]
    /\ UNCHANGED <<layers, ret, call, timer, fs, layer_data>>

\* A finish_timed_stream whose section logger counts from the start of the
\* stream.
finish_timed_stream_restarted ==
    \E self \in log.live :
        /\ self.state = "StreamTimed"
        /\ IF log.writers > 0
           THEN Method("finish_timed_stream", self, {}, <<>>)
           ELSE Method("finish_timed_stream", self,
                       {BuildLog("InSection", self.started)},
                       <<"\n",
                         fmt_step("Done " \o fmt_details(human(elapsed(self.started))))
                         \o "\n">>)

\* A finish_timed_stream that returns the section logger whoever else holds
\* the writer.
finish_timed_stream_shared ==
    \E self \in log.live :
        /\ self.state = "StreamTimed"
        /\ Method("finish_timed_stream", self,
                  {BuildLog("InSection", self.build_timer)},
                  <<"\n",
                    fmt_step("Done " \o fmt_details(human(elapsed(self.started))))
                    \o "\n">>)

\* finish_timed_stream: Arc::try_unwrap(self.arc_io).expect(..) panics while
\* a LockedWriter is alive; otherwise a newline, "Done (duration)" and the
\* section logger.
finish_timed_stream ==
    \E self \in log.live :
        /\ self.state = "StreamTimed"
        /\ IF log.writers > 0
           THEN Method("finish_timed_stream", self, {}, <<>>)
           ELSE Method("finish_timed_stream", self,
                       {BuildLog("InSection", self.build_timer)},
                       <<"\n",
                         fmt_step("Done " \o fmt_details(human(elapsed(self.started))))
                         \o "\n">>)

NextLog ==
    \/ buildpack_name
    \/ without_buildpack_name
    \/ section
    \/ finish_logging
    \/ step
    \/ step_and
    \/ end_section
    \/ step_timed
    \/ timer_thread
    \/ finish_timed_step_stop
    \/ finish_timed_step
    \/ step_timed_stream
    \/ io
    \/ LockedWriter_write
    \/ LockedWriter_drop
    \/ finish_timed_stream

SpecLog == Init /\ [][NextLog]_vars

\* The states a handle of the logger can be in when a method is called on it
\* and when the method returns: the typestates of BuildLog and the two
\* handles of a timed step and a timed stream.
Transitions ==
    {<<"buildpack_name", "NotStarted", "Started">>,
     <<"without_buildpack_name", "NotStarted", "Started">>,
     <<"section", "Started", "InSection">>,
     <<"end_section", "InSection", "Started">>,
     <<"finish_logging", "Started", "Stopped">>,
     <<"step_and", "InSection", "InSection">>,
     <<"step_timed", "InSection", "FinishTimedStep">>,
     <<"finish_timed_step", "FinishTimedStep", "InSection">>,
     <<"step_timed_stream", "InSection", "StreamTimed">>,
     <<"finish_timed_stream", "StreamTimed", "InSection">>}

\* Methods taking &mut self: the handle stays as it is.
Borrowing == {<<"step", "InSection">>, <<"io", "StreamTimed">>}

\* The logger panicked in finish_timed_stream.
Panicked == log.last.method = "finish_timed_stream" /\ log.last.out = {}

\* C22: the logger moves only along NotStarted -> Started -> InSection ->
\* Started -> .. -> Stopped by the methods named; timed steps and timed
\* streams start in InSection and finish in InSection; no method is called
\* on a Stopped handle, Stopped is entered from Started only, and a method
\* that changes the state consumes the handle it was called on: one handle
\* is live at any time.
C22_LoggerTransitions ==
    /\ Cardinality(log.live) = IF Panicked THEN 0 ELSE 1
    /\ \A self \in log.last.self :
        /\ self.state # "Stopped"
        /\ \A out \in log.last.out :
            \/ /\ <<log.last.method, self.state, out.state>> \in Transitions
               /\ self \notin log.live /\ out \in log.live /\ out.id # self.id
            \/ /\ <<log.last.method, self.state>> \in Borrowing
               /\ out = self
        /\ \A out \in log.last.out :
              out.state = "Stopped" => self.state = "Started"
    /\ \A h \in log.live :
          h.state \in {"NotStarted", "Started", "InSection", "Stopped",
                       "FinishTimedStep", "StreamTimed"}

\* The logger has been stopped after a section with a timed step.
C22_Witness ==
    /\ \E h \in log.live : h.state = "Stopped"
    /\ log.last.method = "finish_logging"
    /\ \E i \in DOMAIN log.io : log.io[i] = background_timer_end

(***************************************************************************)
(* commons::build_output: Section::step_with_inline_timer and the thread   *)
(* of time::LiveTimingInline. Each print is one step; a second passes      *)
(* whenever recv_timeout runs out.                                         *)
(***************************************************************************)
\* Seconds a timed step may take.
MaxSeconds == 4

\* Calls of done on one timer.
MaxDone == 2

\* Dots printed in all.
MaxDots == 9

Reasons == {"Installing"}

\* What the thread prints.
Dots == {" .", ".", ". "}

\* Section::step_with_inline_timer: print the reason, LiveTimingInline::new()
\* opens the channel and spawns the thread.
step_with_inline_timer ==
    \E reason \in Reasons :
        /\ timer.main = "idle"
        /\ timer' = [timer EXCEPT !.stdout = @ \o <<fmt_step(reason)>>,
                                  !.channel = <<>>,
                                  !.stop_dots = TRUE,
                                  !.join_dots = TRUE,
                                  !.thread = "spawned",
                                  !.start = timer.clock,
                                  !.main = "working"]
        /\ UNCHANGED <<layers, ret, call, log, fs, layer_data>>

\* The closure of thread::spawn: " .", then per round recv_timeout(1 s), "."
\* and, when a message came, ". " and break. recv_timeout returns at once
\* with an error when the Sender is dropped. Of the dots of a thread that
\* goes on printing, stdout records the first MaxDots lines.
join_dots_thread ==
    /\ \/ /\ timer.thread = "spawned"
          /\ timer' = [timer EXCEPT !.stdout = @ \o <<" .">>, !.thread = "recv"]
       \/ /\ timer.thread = "recv" /\ timer.channel # <<>>
          /\ timer' = [timer EXCEPT !.channel = Tail(@), !.msg_is_ok = TRUE,
                                    !.thread = "print"]
       \/ /\ timer.thread = "recv" /\ timer.channel = <<>> /\ timer.stop_dots
          /\ timer.clock < MaxSeconds
          /\ timer' = [timer EXCEPT !.clock = @ + 1, !.msg_is_ok = FALSE,
                                    !.thread = "print"]
       \/ /\ timer.thread = "recv" /\ timer.channel = <<>> /\ ~timer.stop_dots
          /\ timer' = [timer EXCEPT !.msg_is_ok = FALSE, !.thread = "print"]
       \/ /\ timer.thread = "print"
          /\ timer' = [timer EXCEPT !.stdout = IF Len(@) < MaxDots THEN @ \o <<".">>
                                               ELSE @,
                                    !.thread = IF timer.msg_is_ok THEN "break"
                                               ELSE "recv"]
       \/ /\ timer.thread = "break"
          /\ timer' = [timer EXCEPT !.stdout = @ \o <<". ">>, !.thread = "exited"]
    /\ UNCHANGED <<layers, ret, call, log, fs, layer_data>>

\* LiveTimingInline::done, first half of stop_dots: join_dots.take() and,
\* if it was Some, send(1).expect(..).
stop_dots ==
    /\ timer.main \in {"working", "done"}
    /\ timer.dones < MaxDone
    /\ timer' = [timer EXCEPT
            !.join_dots = FALSE,
            !.channel = IF timer.join_dots /\ timer.thread # "exited"
                        THEN Append(@, 1) ELSE @,
            !.main = IF ~timer.join_dots THEN "println"
                     ELSE IF timer.thread = "exited" THEN "panicked"
                     ELSE "join"]
    /\ UNCHANGED <<layers, ret, call, log, fs, layer_data>>

\* A join that does not wait for the thread.
join_unjoined ==
    /\ timer.main = "join"
    /\ timer' = [timer EXCEPT !.main = "println"]
    /\ UNCHANGED <<layers, ret, call, log, fs, layer_data>>

\* .. second half of stop_dots: handle.join() returns when the thread has.
join ==
    /\ timer.main = "join"
    /\ timer.thread = "exited"
    /\ timer' = [timer EXCEPT !.main = "println"]
    /\ UNCHANGED <<layers, ret, call, log, fs, layer_data>>

\* .. and the rest of done: println!("{time}").
done ==
    /\ timer.main = "println"
    /\ timer' = [timer EXCEPT
            !.stdout = @ \o <<fmt_details(human((timer.clock - timer.start) * 1000))
                              \o "\n">>,
            !.dones = @ + 1,
            !.main = "done"]
    /\ UNCHANGED <<layers, ret, call, log, fs, layer_data>>

\* The timer going out of scope: the Sender and the JoinHandle are dropped.
drop ==
    /\ timer.main \in {"working", "done"}
    /\ timer' = [timer EXCEPT !.stop_dots = FALSE, !.join_dots = FALSE,
                              !.main = "dropped"]
    /\ UNCHANGED <<layers, ret, call, log, fs, layer_data>>

NextTimer ==
    \/ step_with_inline_timer
    \/ join_dots_thread
    \/ stop_dots
    \/ join
    \/ done
    \/ drop

SpecTimer == Init /\ [][NextTimer]_vars

\* The elapsed-time texts on stdout.
TimeTexts == {i \in DOMAIN timer.stdout :
                  timer.stdout[i] \notin Dots \cup {fmt_step(r) : r \in Reasons}}

\* C23: the inline timer prints dots until done is called; when done has
\* returned the thread has received the stop message and is joined, every
\* dot stands before the elapsed-time text, and the thread prints nothing
\* more.
C23_DotsUntilDone ==
    /\ timer.main = "working" => timer.thread \in {"spawned", "recv", "print"}
    /\ timer.main = "working" /\ timer.thread = "print" => ~timer.msg_is_ok
    /\ timer.main = "done" =>
        /\ timer.thread = "exited"
        /\ timer.channel = <<>> /\ timer.msg_is_ok
        /\ ~timer.join_dots
        /\ TimeTexts # {}
        /\ \A i \in DOMAIN timer.stdout, j \in TimeTexts :
              timer.stdout[i] \in Dots => i < j
        /\ timer.stdout[Len(timer.stdout)] \notin Dots

\* done has returned after a step of two seconds and printed "(2.000s)"
\* behind the dots.
C23_Witness ==
    /\ timer.main = "done"
    /\ timer.stdout = <<"  - Installing", " .", ".", ".", ".", ". ", "(2.000s)\n">>

(***************************************************************************)
(* commons::in_app_dir_cache: DirCache over an application directory and   *)
(* its cache directory. A directory is a function from the paths below it  *)
(* to what is there: nothing, a file (size, mtime, content) or a directory.*)
(***************************************************************************)
\* Largest max_bytes asked for.
MaxBytes == 4

\* Largest file size.
MaxSize == 2

\* Latest mtime.
MaxMtime == 1

\* std::fs::write / filetime::set_file_mtime / create_dir_all, as the tests
\* and the build steps fill a directory.
fs_write(dirs, paths, sizes, mtimes, contents) ==
    \E d \in dirs, p \in paths, size \in sizes, modified \in mtimes,
       content \in contents :
        /\ fs[d][p].kind # "dir"
        /\ fs' = [fs EXCEPT ![d][p] = [kind |-> "file", size |-> size,
                                       modified |-> modified, content |-> content]]
        /\ UNCHANGED <<layers, ret, call, log, timer, layer_data>>

create_dir_all(dirs, paths) ==
    \E d \in dirs, p \in paths, size \in {MaxSize} :
        /\ fs[d][p].kind = "none"
        /\ fs' = [fs EXCEPT ![d][p] = [kind |-> "dir", size |-> size,
                                       modified |-> 0, content |-> ""]]
        /\ UNCHANGED <<layers, ret, call, log, timer, layer_data>>

\* glob::glob(cache_path.join("**/*")).filter_map(Result::ok): every path
\* below the directory, in alphabetical order.
RECURSIVE glob(_, _)
glob(dir, i) ==
    IF i > Len(PathOrder) THEN <<>>
    ELSE (IF dir[PathOrder[i]].kind # "none" THEN <<PathOrder[i]>> ELSE <<>>)
         \o glob(dir, i + 1)

\* .filter(|p| p.is_file())
RECURSIVE filter_is_file(_, _)
filter_is_file(dir, paths) ==
    IF paths = <<>> THEN <<>>
    ELSE (IF dir[Head(paths)].kind = "file" THEN <<Head(paths)>> ELSE <<>>)
         \o filter_is_file(dir, Tail(paths))

\* MiniPathModSize::new(path)
MiniPathModSize(dir, path) ==
    [path |-> path, modified |-> dir[path].modified, size |-> dir[path].size]

\* files.iter().map(|p| u128::from(p.size)).sum::<u128>()
RECURSIVE sum(_)
sum(files) == IF files = <<>> THEN 0 ELSE Head(files).size + sum(Tail(files))

\* files.sort_by(|a, b| a.modified.cmp(&b.modified)): a stable sort.
RECURSIVE insert(_, _)
insert(sorted, m) ==
    IF sorted = <<>> THEN <<m>>
    ELSE IF sorted[Len(sorted)].modified <= m.modified THEN Append(sorted, m)
    ELSE Append(insert(SubSeq(sorted, 1, Len(sorted) - 1), m), sorted[Len(sorted)])

RECURSIVE sort_by_newest_first(_)
sort_by_newest_first(files) ==
    IF files = <<>> THEN <<>>
    ELSE LET rest == sort_by_newest_first(SubSeq(files, 1, Len(files) - 1))
             m == files[Len(files)]
             before == SelectSeq(rest, LAMBDA x : x.modified >= m.modified)
             after == SelectSeq(rest, LAMBDA x : x.modified < m.modified)
         IN  before \o <<m>> \o after

RECURSIVE sort_by(_)
sort_by(files) ==
    IF files = <<>> THEN <<>>
    ELSE insert(sort_by(SubSeq(files, 1, Len(files) - 1)), files[Len(files)])

\* .take_while(|m| { current_bytes -= u128::from(m.size); current_bytes >=
\* max_bytes }).map(|p| p.path.clone()): the paths taken, and whether a
\* subtraction went below zero (a panic, or in a release build a wrap to a
\* number above every max_bytes).
RECURSIVE take_while(_, _, _, _)
take_while(files, current_bytes, wrapped, max_bytes) ==
    IF files = <<>> THEN [files |-> <<>>, underflow |-> FALSE]
    ELSE LET m == Head(files)
             under == ~wrapped /\ current_bytes < m.size
             now_wrapped == wrapped \/ under
             after == IF now_wrapped THEN current_bytes ELSE current_bytes - m.size
         IN  IF now_wrapped \/ after >= max_bytes
             THEN LET rest == take_while(Tail(files), after, now_wrapped, max_bytes)
                  IN  [files |-> <<m.path>> \o rest.files,
                       underflow |-> under \/ rest.underflow]
             ELSE [files |-> <<>>, underflow |-> under]

\* FilesWithSize::default()
FilesWithSize_default == [bytes |-> 0, files |-> <<>>, underflow |-> FALSE]

\* The files of a directory as MiniPathModSize, in glob order.
RECURSIVE collect(_, _)
collect(dir, paths) ==
    IF paths = <<>> THEN <<>>
    ELSE <<MiniPathModSize(dir, Head(paths))>> \o collect(dir, Tail(paths))

\* least_recently_used_files_above_limit_from_path without the test of
\* bytes against max_bytes.
lru_unconditional(cache_path, max_bytes) ==
    LET files == collect(cache_path, filter_is_file(cache_path, glob(cache_path, 1)))
        bytes == sum(files)
        taken == take_while(sort_by(files), bytes, FALSE, max_bytes)
    IN  [bytes |-> bytes, files |-> taken.files, underflow |-> taken.underflow]

\* .. sorting the newest file first.
lru_newest_first(cache_path, max_bytes) ==
    LET files == collect(cache_path, filter_is_file(cache_path, glob(cache_path, 1)))
        bytes == sum(files)
    IN  IF bytes >= max_bytes
        THEN LET taken == take_while(sort_by_newest_first(files), bytes, FALSE,
                                     max_bytes)
             IN  [bytes |-> bytes, files |-> taken.files,
                  underflow |-> taken.underflow]
        ELSE FilesWithSize_default

least_recently_used_files_above_limit_from_path(cache_path, max_bytes) ==
    LET files == collect(cache_path, filter_is_file(cache_path, glob(cache_path, 1)))
        bytes == sum(files)
    IN  IF bytes >= max_bytes
        THEN LET taken == take_while(sort_by(files), bytes, FALSE, max_bytes)
             IN  [bytes |-> bytes, files |-> taken.files,
                  underflow |-> taken.underflow]
        ELSE FilesWithSize_default

\* DirCache::least_recently_used_files_above_limit(max_bytes)
least_recently_used_files_above_limit ==
    \E max_bytes \in 0..MaxBytes :
        /\ call' = [fn |-> "least_recently_used_files_above_limit",
                    args |-> [cache_path |-> fs.cache, max_bytes |-> max_bytes],
                    result |-> least_recently_used_files_above_limit_from_path(
                                   fs.cache, max_bytes)]
        /\ UNCHANGED <<layers, ret, log, timer, fs, layer_data>>

\* The paths of the LRU tests: two files and a directory.
LruPaths == {"a_newer", "z_older"}

NextLru ==
    \/ fs_write({"cache"}, LruPaths, 0..MaxSize, 0..MaxMtime, {""})
    \/ create_dir_all({"cache"}, {"preservation_society"})
    \/ least_recently_used_files_above_limit

SpecLru == Init /\ [][NextLru]_vars

IsLruCall == call.fn = "least_recently_used_files_above_limit"

\* The regular files of the directory the call looked at, and their size.
RegularFiles == {p \in Range(PathOrder) : call.args.cache_path[p].kind = "file"}

RECURSIVE TotalSize(_)
TotalSize(paths) ==
    IF paths = {} THEN 0
    ELSE LET p == CHOOSE q \in paths : TRUE
         IN  call.args.cache_path[p].size + TotalSize(paths \ {p})

\* C24: least_recently_used_files_above_limit returns the files oldest
\* first: the result is a prefix of the regular files under the cache path
\* in ascending order of mtime, it holds no directory, and the byte counter
\* it subtracts from never goes below zero.
C24_OldestFirst ==
    IsLruCall =>
        LET files == call.result.files
            mtime(p) == call.args.cache_path[p].modified
        IN  /\ Range(files) \subseteq RegularFiles
            /\ \A i, j \in DOMAIN files : i < j =>
                  /\ files[i] # files[j]
                  /\ mtime(files[i]) <= mtime(files[j])
            /\ \A p \in RegularFiles \ Range(files), i \in DOMAIN files :
                  mtime(files[i]) <= mtime(p)
            /\ ~call.result.underflow

\* Of two files and a directory the older file alone was returned.
C24_Witness ==
    /\ IsLruCall
    /\ call.args.cache_path["preservation_society"].kind = "dir"
    /\ call.args.cache_path["a_newer"].modified = 1
    /\ call.args.cache_path["z_older"].modified = 0
    /\ call.args.cache_path["a_newer"].kind = "file"
    /\ call.result.files = <<"z_older">>

\* C25: no file is returned, and 0 bytes are reported, whenever the regular
\* files together are smaller than max_bytes; files are returned only when
\* their total size is at least max_bytes.
C25_BelowLimitNothing ==
    IsLruCall =>
        /\ TotalSize(RegularFiles) < call.args.max_bytes =>
              call.result.files = <<>> /\ call.result.bytes = 0
        /\ call.result.files # <<>> =>
              TotalSize(RegularFiles) >= call.args.max_bytes

\* Files of 3 bytes in all under a limit of 4: nothing returned, 0 reported.
C25_Witness ==
    /\ IsLruCall
    /\ TotalSize(RegularFiles) = 3 /\ call.args.max_bytes = 4
    /\ call.result = FilesWithSize_default

(***************************************************************************)
(* DirCache: moving and copying between the app path and the cache path    *)
(* with fs_extra, CopyOptions { overwrite: false, skip_exist: true,        *)
(* copy_inside: true, content_only: true }.                                *)
(***************************************************************************)
\* What fs_extra does at one path of the destination for the entry at the
\* same path of the source: a directory is created if nothing is there, a
\* file is copied if nothing is there (its mtime is the time of the copy)
\* and skipped if something is.
copy_entry(from, to) ==
    IF from.kind = "none" \/ to.kind # "none" THEN to
    ELSE IF from.kind = "dir" THEN from
    ELSE [from EXCEPT !.modified = MaxMtime]

\* fs_extra::dir::copy(from, to, options): the content of from, copied.
dir_copy(from, to) == [p \in DOMAIN to |-> copy_entry(from[p], to[p])]

\* fs_extra::dir::move_dir(from, to, options): each file is copied and then
\* removed, except a skipped file, which stays; the directories of from
\* stay, since to exists.
move_dir(from, to) ==
    [to |-> dir_copy(from, to),
     from |-> [p \in DOMAIN from |->
                  IF from[p].kind = "file" /\ to[p].kind = "none"
                  THEN NoEntry ELSE from[p]]]

\* DirCache::move_cache_to_app
move_cache_to_app ==
    LET moved == move_dir(fs.cache, fs.app)
    IN  /\ fs' = [app |-> moved.to, cache |-> moved.from]
        /\ call' = [fn |-> "move_cache_to_app", args |-> [fs |-> fs],
                    result |-> [app |-> moved.to, cache |-> moved.from]]
        /\ UNCHANGED <<layers, ret, log, timer, layer_data>>

\* A destructive_move_app_path_to_cache that copies.
destructive_move_app_path_to_cache_copies ==
    /\ fs' = [fs EXCEPT !.cache = dir_copy(fs.app, fs.cache)]
    /\ call' = [fn |-> "destructive_move_app_path_to_cache", args |-> [fs |-> fs],
                result |-> [fs EXCEPT !.cache = dir_copy(fs.app, fs.cache)]]
    /\ UNCHANGED <<layers, ret, log, timer, layer_data>>

\* DirCache::destructive_move_app_path_to_cache
destructive_move_app_path_to_cache ==
    LET moved == move_dir(fs.app, fs.cache)
    IN  /\ fs' = [app |-> moved.from, cache |-> moved.to]
        /\ call' = [fn |-> "destructive_move_app_path_to_cache",
                    args |-> [fs |-> fs],
                    result |-> [app |-> moved.from, cache |-> moved.to]]
        /\ UNCHANGED <<layers, ret, log, timer, layer_data>>

\* DirCache::copy_app_path_to_cache
copy_app_path_to_cache ==
    /\ fs' = [fs EXCEPT !.cache = dir_copy(fs.app, fs.cache)]
    /\ call' = [fn |-> "copy_app_path_to_cache", args |-> [fs |-> fs],
                result |-> [fs EXCEPT !.cache = dir_copy(fs.app, fs.cache)]]
    /\ UNCHANGED <<layers, ret, log, timer, layer_data>>

\* The tests' app and cache directory: lol.txt written into either, with one
\* content or another, and a subdirectory.
NextDirCache ==
    \/ fs_write({"app", "cache"}, {"lol.txt"}, {1}, {0}, {"hahaha", "stale"})
    \/ create_dir_all({"app", "cache"}, {"preservation_society"})
    \/ move_cache_to_app
    \/ destructive_move_app_path_to_cache
    \/ copy_app_path_to_cache

SpecDirCache == Init /\ [][NextDirCache]_vars

\* The directories before and after the last call of a DirCache method.
Before == call.args.fs

After == call.result

IsDirCacheCall ==
    call.fn \in {"move_cache_to_app", "destructive_move_app_path_to_cache",
                 "copy_app_path_to_cache"}

\* The files of a directory.
FilesOf(dir) == {p \in DOMAIN dir : dir[p].kind = "file"}

\* Where a call writes.
Destination == IF call.fn = "move_cache_to_app" THEN "app" ELSE "cache"

\* No file that was at the destination has been changed.
NothingOverwritten ==
    \A p \in FilesOf(Before[Destination]) :
        After[Destination][p] = Before[Destination][p]

\* C26: copy_app_path_to_cache leaves every app file in place and makes it
\* present in the cache; destructive_move_app_path_to_cache makes every app
\* file present in the cache and absent from the app path; move_cache_to_app
\* on an empty cache leaves the app directory unchanged; none of the three
\* overwrites a file that already exists at the destination.
C26_AsClaimed ==
    IsDirCacheCall =>
        /\ call.fn = "copy_app_path_to_cache" =>
              \A p \in FilesOf(Before.app) :
                  After.app[p] = Before.app[p] /\ After.cache[p].kind = "file"
        /\ call.fn = "destructive_move_app_path_to_cache" =>
              \A p \in FilesOf(Before.app) :
                  After.cache[p].kind = "file" /\ After.app[p].kind = "none"
        /\ (call.fn = "move_cache_to_app" /\ Before.cache = EmptyDirs.cache) =>
              After.app = Before.app
        /\ NothingOverwritten

\* C26, as the code has it: the same, except that destructive_move_app_path_
\* to_cache removes from the app path only the files it moved; a file whose
\* path is taken in the cache is skipped and stays in the app path.
C26_CopyAndMove ==
    IsDirCacheCall =>
        /\ call.fn = "copy_app_path_to_cache" =>
              /\ After.app = Before.app
              /\ \A p \in FilesOf(Before.app) :
                    /\ After.cache[p].kind = "file"
                    /\ Before.cache[p].kind = "none" =>
                          After.cache[p].content = Before.app[p].content
        /\ call.fn = "destructive_move_app_path_to_cache" =>
              \A p \in FilesOf(Before.app) :
                  /\ After.cache[p].kind = "file"
                  /\ IF Before.cache[p].kind = "none"
                     THEN /\ After.app[p].kind = "none"
                          /\ After.cache[p].content = Before.app[p].content
                     ELSE After.app[p] = Before.app[p]
        /\ (call.fn = "move_cache_to_app" /\ Before.cache = EmptyDirs.cache) =>
              After.app = Before.app
        /\ NothingOverwritten

\* lol.txt has been moved into a cache that had no lol.txt.
C26_Witness ==
    /\ call.fn = "destructive_move_app_path_to_cache"
    /\ Before.app["lol.txt"].content = "hahaha"
    /\ Before.cache["lol.txt"].kind = "none"
    /\ After.cache["lol.txt"].content = "hahaha"
    /\ After.app["lol.txt"].kind = "none"

(***************************************************************************)
(* InAppDirCache: the layer name of a cached application path. A path is   *)
(* the sequence of its components.                                         *)
(***************************************************************************)
\* Components of a path.
MaxDepth == 3

PathComponents == {"muh_base", "my", "input"}

PathBufs == UNION {[1..n -> PathComponents] : n \in 0..MaxDepth}

\* Components of the base of a call.
MaxBase == 2

BasePathBufs == UNION {[1..n -> PathComponents] : n \in 0..MaxBase}

\* components joined by a separator
RECURSIVE join_with(_, _)
join_with(components, separator) ==
    IF components = <<>> THEN ""
    ELSE IF Len(components) = 1 THEN components[1]
    ELSE components[1] \o separator \o join_with(Tail(components), separator)

\* Path::display
display(path) == join_with(path, "/")

\* Path::strip_prefix(base): the rest of the path if base is a prefix of it,
\* component by component.
RECURSIVE strip_prefix(_, _)
strip_prefix(path, base) ==
    IF base = <<>> THEN [ok |-> TRUE, path |-> path]
    ELSE IF path = <<>> \/ Head(path) # Head(base) THEN [ok |-> FALSE, path |-> <<>>]
    ELSE strip_prefix(Tail(path), Tail(base))

\* CacheError::CachedPathNotInAppPath(..)
CachedPathNotInAppPath(message) ==
    [ok |-> FALSE, name |-> "", error |-> "CachedPathNotInAppPath",
     message |-> message]

\* to_layer_name taking as many components off as base has.
to_layer_name_unchecked(base, app_path) ==
    [ok |-> TRUE, error |-> "", message |-> "",
     name |-> "cache_" \o
              join_with(SubSeq(app_path, Len(base) + 1, Len(app_path)), "_")]

to_layer_name(base, app_path) ==
    LET stripped == strip_prefix(app_path, base)
    IN  IF ~stripped.ok
        THEN CachedPathNotInAppPath(
                 "Expected cached app path " \o display(app_path) \o
                 " to be in " \o display(base) \o " but it was not")
        ELSE [ok |-> TRUE, error |-> "", message |-> "",
              name |-> "cache_" \o join_with(stripped.path, "_")]

call_to_layer_name ==
    \E base \in BasePathBufs, app_path \in PathBufs :
        /\ call' = [fn |-> "to_layer_name",
                    args |-> [base |-> base, app_path |-> app_path,
                              layers |-> layers],
                    result |-> to_layer_name(base, app_path) @@ [layers |-> layers]]
        /\ UNCHANGED <<layers, ret, log, timer, fs, layer_data>>

\* InAppDirCache::new_and_load(context, app_path): the layer name or the
\* error; then handle_layer gets or creates the layer, mkdir_p, and the
\* cache is moved into the app path.
new_and_load ==
    \E app_dir \in {<<"muh_base">>},
       app_path \in {<<"muh_base", "my", "input">>, <<"my", "input">>,
                     <<"input", "muh_base">>} :
        LET name == to_layer_name(app_dir, app_path)
            layer == IF layers[name.name].exists THEN layers[name.name]
                     ELSE create_layer([build |-> FALSE, launch |-> FALSE])
            moved == move_dir(fs.cache, fs.app)
            after == IF name.ok THEN [layers EXCEPT ![name.name] = layer] ELSE layers
        IN  /\ layers' = after
            /\ fs' = IF name.ok THEN [app |-> moved.to, cache |-> moved.from] ELSE fs
            /\ call' = [fn |-> "new_and_load",
                        args |-> [base |-> app_dir, app_path |-> app_path,
                                  layers |-> layers],
                        result |-> name @@ [layers |-> after]]
            /\ UNCHANGED <<ret, log, timer, layer_data>>

NextLayerName ==
    \/ call_to_layer_name
    \/ new_and_load

SpecLayerName == Init /\ [][NextLayerName]_vars

IsLayerNameCall == call.fn \in {"to_layer_name", "new_and_load"}

\* app_path lies under base.
Under(base, app_path) ==
    /\ Len(base) <= Len(app_path)
    /\ \A i \in DOMAIN base : app_path[i] = base[i]

\* The components of a path from the i-th on, each behind a "_" but the first.
RECURSIVE Underscored(_, _)
Underscored(path, i) ==
    IF i > Len(path) THEN ""
    ELSE IF i = Len(path) THEN path[i]
    ELSE Underscored([j \in 1..(Len(path) - 1) |-> path[j]], i) \o "_" \o path[Len(path)]

\* C27: to_layer_name(base, app_path) returns "cache_" followed by the
\* components of app_path relative to base joined with "_" when app_path
\* lies under base, and CacheError::CachedPathNotInAppPath, no layer being
\* created, when it does not.
C27_LayerName ==
    IsLayerNameCall =>
        LET base == call.args.base
            app_path == call.args.app_path
        IN  IF Under(base, app_path)
            THEN /\ call.result.ok
                 /\ call.result.name = "cache_" \o Underscored(app_path, Len(base) + 1)
            ELSE /\ ~call.result.ok
                 /\ call.result.error = "CachedPathNotInAppPath"
                 /\ call.result.layers = call.args.layers

\* muh_base/my/input under muh_base is "cache_my_input", as the test asserts.
C27_Witness ==
    /\ call.fn = "to_layer_name"
    /\ call.args.base = <<"muh_base">>
    /\ call.args.app_path = <<"muh_base", "my", "input">>
    /\ call.result.name = "cache_my_input"

\* new_and_load of a path outside the app directory has failed, and of a
\* path inside it has created the layer.
C27_WitnessOutside ==
    /\ call.fn = "new_and_load"
    /\ call.args.app_path = <<"my", "input">>
    /\ ~call.result.ok
    /\ layers["cache_my_input"].exists

(***************************************************************************)
(* The layers of the Layer trait: RubyInstallLayer, CreateBundlePathLayer  *)
(* and InstallAgentmon, each handled by context.handle_layer. What a       *)
(* method prints is the sequence of its lines.                             *)
(***************************************************************************)
DOWNLOAD_URL ==
    "https://agentmon-releases.s3.amazonaws.com/agentmon-0.3.1-linux-amd64.tar.gz"

\* Option<String>::None
NoneString == [some |-> FALSE, v |-> ""]

\* download_url of a stored Metadata: none, the current one, an earlier one.
DownloadUrls ==
    {NoneString, Some(DOWNLOAD_URL),
     Some("https://agentmon-releases.s3.amazonaws.com/agentmon-0.3.0-linux-amd64.tar.gz")}

InstallAgentmonMetadata == [download_url : DownloadUrls]

CreateBundlePathMetadata == [ruby_version : ResolvedRubyVersions]

\* Section::say, say_with_details, say_with_inline_timer of the buildpacks'
\* build output: one line each, as Section::step and step_with_details.
say(contents) == <<fmt_step(contents)>>

say_with_details(contents, details) ==
    <<fmt_step(contents \o " " \o fmt_details(details))>>

say_with_inline_timer(reason) == <<fmt_step(reason)>>

\* println!
println(line) == <<line>>

RubyInstallLayer_existing_layer_strategy(self, context, old) ==
    LET now == [stack |-> context.stack_id, version |-> self.version]
        changed == cache_state(old, now).changed
    IN  CASE changed = "Nothing" ->
               [strategy |-> "Keep", out |-> say("Using cached version")]
          [] changed = "Stack" ->
               [strategy |-> "Recreate",
                out |-> say_with_details("Clearing cache", "stack changed")]
          [] changed = "RubyVersion" ->
               [strategy |-> "Recreate",
                out |-> say_with_details("Clearing cache", "ruby version changed")]

\* RubyInstallLayer::create: the download or the untar may fail.
RubyInstallLayer_create(self, context, fails) ==
    [ok |-> ~fails,
     out |-> say_with_inline_timer("Installing"),
     metadata |-> [stack |-> context.stack_id, version |-> self.version]]

CreateBundlePathLayer_existing_layer_strategy(self, old) ==
    IF self.ruby_version = old.ruby_version
    THEN [strategy |-> "Keep", out |-> <<>>]
    ELSE [strategy |-> "Recreate",
          out |-> println("---> Ruby version changed, clearing gems")]

CreateBundlePathLayer_create(self) ==
    [ok |-> TRUE, out |-> <<>>, metadata |-> [ruby_version |-> self.ruby_version]]

\* InstallAgentmon::existing_layer_strategy updating for every stored url.
InstallAgentmon_existing_layer_strategy_any_url(old) ==
    IF old.download_url.some
    THEN [strategy |-> "Update", out |-> say("Using cached metrics agent")]
    ELSE [strategy |-> "Recreate", out |-> <<>>]

InstallAgentmon_existing_layer_strategy(old) ==
    IF old.download_url.some /\ old.download_url.v = DOWNLOAD_URL
    THEN [strategy |-> "Update", out |-> say("Using cached metrics agent")]
    ELSE IF old.download_url.some
    THEN [strategy |-> "Recreate",
          out |-> say_with_details("Updating metrics agent",
                                   old.download_url.v \o " to " \o DOWNLOAD_URL)]
    ELSE [strategy |-> "Recreate", out |-> <<>>]

InstallAgentmon_migrate_incompatible_metadata ==
    [migration |-> "RecreateLayer",
     out |-> say_with_details("Clearing cache", "invalid metadata")]

\* InstallAgentmon::create: agentmon_download or write_execd_script may
\* fail; the scripts are written only after the download.
InstallAgentmon_create(fails) ==
    [ok |-> fails = "none",
     out |-> say_with_inline_timer("Downloading") \o
             (IF fails = "agentmon_download" THEN <<>> ELSE say("Writing scripts")),
     metadata |-> [download_url |-> Some(DOWNLOAD_URL)]]

InstallAgentmon_update(fails) ==
    [ok |-> fails = "none",
     out |-> say("Writing scripts"),
     metadata |-> [download_url |-> Some(DOWNLOAD_URL)]]

\* The Layer trait's defaults: update returns the stored metadata, and
\* incompatible metadata recreates the layer.
Layer_update(old) == [ok |-> TRUE, out |-> <<>>, metadata |-> old]

Layer_migrate_incompatible_metadata == [migration |-> "RecreateLayer", out |-> <<>>]

\* context.handle_layer: an absent layer is created; one whose metadata
\* does not deserialize is migrated; any other is kept, updated or deleted
\* and created as existing_layer_strategy says. The metadata a successful
\* create or update returns is written; a failed build exports nothing, and
\* the cache holds what it held.
handle_layer(data, strategy, migration, created, updated) ==
    LET create(decision, by, explained) ==
            [decision |-> decision, by |-> by, explained |-> explained,
             trace |-> (IF by = "none" THEN <<>> ELSE <<by>>) \o <<"create">>,
             out |-> explained \o created.out, ok |-> created.ok,
             data |-> IF created.ok
                      THEN [exists |-> TRUE, compatible |-> TRUE,
                            metadata |-> created.metadata]
                      ELSE data]
    IN  IF ~data.exists THEN create("Create", "none", <<>>)
        ELSE IF ~data.compatible
        THEN create("Recreate", "migrate_incompatible_metadata", migration.out)
        ELSE CASE strategy.strategy = "Keep" ->
                    [decision |-> "Keep", by |-> "existing_layer_strategy",
                     explained |-> strategy.out,
                     trace |-> <<"existing_layer_strategy">>,
                     out |-> strategy.out, ok |-> TRUE, data |-> data]
               [] strategy.strategy = "Update" ->
                    [decision |-> "Update", by |-> "existing_layer_strategy",
                     explained |-> strategy.out,
                     trace |-> <<"existing_layer_strategy", "update">>,
                     out |-> strategy.out \o updated.out, ok |-> updated.ok,
                     data |-> IF updated.ok
                              THEN [data EXCEPT !.metadata = updated.metadata]
                              ELSE data]
               [] strategy.strategy = "Recreate" ->
                    create("Recreate", "existing_layer_strategy", strategy.out)

HandleLayer(layer, self, context, handled) ==
    /\ layer_data' = [layer_data EXCEPT ![layer] = handled.data]
    /\ call' = [fn |-> "handle_layer", layer |-> layer,
                args |-> [self |-> self, context |-> context,
                          data |-> layer_data[layer]],
                result |-> handled]
    /\ UNCHANGED <<layers, ret, log, timer, fs>>

handle_layer_RubyInstallLayer ==
    \E version \in ResolvedRubyVersions, stack_id \in StackIds, fails \in BOOLEAN :
        LET self == [version |-> version]
            context == [stack_id |-> stack_id]
            data == layer_data["RubyInstallLayer"]
        IN  HandleLayer("RubyInstallLayer", self, context,
                handle_layer(data,
                    RubyInstallLayer_existing_layer_strategy(self, context, data.metadata),
                    Layer_migrate_incompatible_metadata,
                    RubyInstallLayer_create(self, context, fails),
                    Layer_update(data.metadata)))

handle_layer_CreateBundlePathLayer ==
    \E ruby_version \in ResolvedRubyVersions :
        LET self == [ruby_version |-> ruby_version]
            data == layer_data["CreateBundlePathLayer"]
        IN  HandleLayer("CreateBundlePathLayer", self, <<>>,
                handle_layer(data,
                    CreateBundlePathLayer_existing_layer_strategy(self, data.metadata),
                    Layer_migrate_incompatible_metadata,
                    CreateBundlePathLayer_create(self),
                    Layer_update(data.metadata)))

handle_layer_InstallAgentmon ==
    \E fails \in {"none", "agentmon_download", "write_execd_script"} :
        LET data == layer_data["InstallAgentmon"]
        IN  HandleLayer("InstallAgentmon", <<>>, <<>>,
                handle_layer(data,
                    InstallAgentmon_existing_layer_strategy(data.metadata),
                    InstallAgentmon_migrate_incompatible_metadata,
                    InstallAgentmon_create(fails),
                    InstallAgentmon_update(
                        IF fails = "agentmon_download" THEN "none" ELSE fails)))

\* What an earlier build, of this or an earlier version of the buildpack,
\* has left in the cache that the lifecycle restores.
CachedLayerData(layer) ==
    LET Metadata == CASE layer = "RubyInstallLayer" -> RubyInstallLayerMetadata
                      [] layer = "CreateBundlePathLayer" -> CreateBundlePathMetadata
                      [] layer = "InstallAgentmon" -> InstallAgentmonMetadata
    IN  {[exists |-> TRUE, compatible |-> TRUE, metadata |-> m] : m \in Metadata}
        \cup {[exists |-> TRUE, compatible |-> FALSE, metadata |-> <<>>]}

lifecycle_restore ==
    \E layer \in DOMAIN layer_data :
        /\ \E data \in CachedLayerData(layer) :
               layer_data' = [layer_data EXCEPT ![layer] = data]
        /\ UNCHANGED <<layers, ret, call, log, timer, fs>>

NextTrait ==
    \/ handle_layer_RubyInstallLayer
    \/ handle_layer_CreateBundlePathLayer
    \/ handle_layer_InstallAgentmon
    \/ lifecycle_restore

SpecTrait == Init /\ [][NextTrait]_vars

\* The last call handled a layer that was in the cache with metadata of
\* the layer's type.
Existing(layer) ==
    /\ call.fn = "handle_layer"
    /\ call.layer = layer
    /\ call.args.data.exists
    /\ call.args.data.compatible

\* The decision was taken by a method of the layer under src/.
TakenByStrategy ==
    /\ call.fn = "handle_layer"
    /\ \/ call.result.by = "existing_layer_strategy"
       \/ /\ call.result.by = "migrate_incompatible_metadata"
          /\ call.layer = "InstallAgentmon"

\* C28: every Recreate decision of the strategies of RubyInstallLayer,
\* CreateBundlePathLayer and InstallAgentmon (its stored download_url =
\* None and its incompatible-metadata migration included) comes with
\* exactly one line of build output saying why the cache is cleared.
C28_RecreateExplained ==
    (TakenByStrategy /\ call.result.decision = "Recreate") =>
        Len(call.result.explained) = 1

\* InstallAgentmon has recreated a layer whose stored download_url is None,
\* and no line said so.
C28_SilentRecreate ==
    /\ Existing("InstallAgentmon")
    /\ call.args.data.metadata.download_url = NoneString
    /\ call.result.decision = "Recreate"
    /\ call.result.explained = <<>>

\* Every other Recreate of the three layers comes with exactly one line.
C28_OtherRecreatesExplained ==
    (/\ TakenByStrategy
     /\ call.result.decision = "Recreate"
     /\ ~(/\ Existing("InstallAgentmon")
          /\ call.args.data.metadata.download_url = NoneString)) =>
        Len(call.result.explained) = 1

\* C29: RubyInstallLayer keeps an existing layer exactly when the stored
\* stack and the stored Ruby version both equal the current ones, and
\* CreateBundlePathLayer exactly when the stored ruby_version equals the
\* current one; otherwise the layer is recreated, and when stack and
\* version both changed it is the stack change that is reported.
C29_KeepIffUnchanged ==
    /\ Existing("RubyInstallLayer") =>
           LET old == call.args.data.metadata
               same_stack == old.stack = call.args.context.stack_id
               same_version == old.version = call.args.self.version
           IN  /\ call.result.decision =
                      IF same_stack /\ same_version THEN "Keep" ELSE "Recreate"
               /\ (same_stack /\ same_version) =>
                      call.result.trace = <<"existing_layer_strategy">>
               /\ ~(same_stack /\ same_version) =>
                      call.result.trace = <<"existing_layer_strategy", "create">>
               /\ ~same_stack =>
                      call.result.explained = <<"  - Clearing cache (stack changed)">>
               /\ (same_stack /\ ~same_version) =>
                      call.result.explained =
                          <<"  - Clearing cache (ruby version changed)">>
    /\ Existing("CreateBundlePathLayer") =>
           LET same_version ==
                   call.args.data.metadata.ruby_version = call.args.self.ruby_version
           IN  /\ call.result.decision = IF same_version THEN "Keep" ELSE "Recreate"
               /\ call.result.trace =
                      IF same_version THEN <<"existing_layer_strategy">>
                      ELSE <<"existing_layer_strategy", "create">>

\* Stack and version have both changed, and the stack change is reported.
C29_Witness ==
    /\ Existing("RubyInstallLayer")
    /\ call.args.data.metadata.stack # call.args.context.stack_id
    /\ call.args.data.metadata.version # call.args.self.version
    /\ call.result.decision = "Recreate"
    /\ call.result.explained = <<"  - Clearing cache (stack changed)">>

\* C30: InstallAgentmon updates (the layer is not deleted, the scripts are
\* written again, the metadata is written with the current DOWNLOAD_URL)
\* exactly when the stored download_url equals DOWNLOAD_URL, and recreates
\* for any other stored value, another url or None; when either has
\* completed the stored download_url is the current DOWNLOAD_URL.
C30_UpdateIffSameUrl ==
    Existing("InstallAgentmon") =>
        LET same == call.args.data.metadata.download_url = Some(DOWNLOAD_URL)
        IN  /\ call.result.decision = IF same THEN "Update" ELSE "Recreate"
            /\ call.result.trace =
                   IF same THEN <<"existing_layer_strategy", "update">>
                   ELSE <<"existing_layer_strategy", "create">>
            /\ (same /\ call.result.ok) =>
                   call.result.out[Len(call.result.out)] = "  - Writing scripts"
            /\ call.result.ok =>
                   call.result.data.metadata.download_url = Some(DOWNLOAD_URL)

\* The stored url is the current one: the layer has been updated and its
\* metadata written.
C30_Witness ==
    /\ Existing("InstallAgentmon")
    /\ call.args.data.metadata.download_url = Some(DOWNLOAD_URL)
    /\ call.result.decision = "Update"
    /\ call.result.ok
    /\ layer_data["InstallAgentmon"].metadata.download_url = Some(DOWNLOAD_URL)

(***************************************************************************)
(* cached_layer_builder and its with_data closure.                         *)
(***************************************************************************)
\* Builds of a layer of the Person types by cached_layer_builder; the diff
\* of PersonV2 compares the name and leaves updated_at aside.
PersonMetadata == {m \in FreshMetadata : m.schema \in {"PersonV1", "PersonV2"}}

NextBuilder == cached_layer_builder(LayerNames, {None}, PersonMetadata)

SpecBuilder == Init /\ [][NextBuilder]_vars

IsBuilderCall == Called /\ ret.ok /\ ret.fn = "cached_layer_builder"

\* The stored value the last build handed to restored_layer_action: what
\* was on disk if that is of the type, what it migrated to otherwise.
OldOfBuild ==
    IF Deserialize(ret.M, ret.prior.doc).ok
    THEN Deserialize(ret.M, ret.prior.doc).value
    ELSE PriorResolved.value

\* How often a callback is in the trace of the last build.
TimesCalled(callback) ==
    Cardinality({i \in DOMAIN ret.trace : ret.trace[i] = callback})

\* C31: cached_layer_builder invokes with_data only when the layer is kept,
\* at most once in a build, with the stored value first and the fresh value
\* second; where the layer is deleted with_data is not invoked and the cause
\* is a CacheState::Message carrying the reason for clearing.
C31_WithDataOnlyWhenKept ==
    IsBuilderCall =>
        /\ ret.state.cause.kind = "Data" <=> ret.state.kind = "Restored"
        /\ ret.state.kind = "Restored" =>
               /\ ret.state.cause.data = [old |-> OldOfBuild, now |-> ret.metadata]
               /\ TimesCalled("restored_layer_action") = 1
        /\ ret.state.why = "RestoredLayerAction" =>
               /\ ret.state.cause.kind = "Message"
               /\ ret.state.cause.data = NoValue
               /\ ret.state.cause.text =
                      RestoredOf("shared", [keys |-> ret.keys, old |-> OldOfBuild,
                                            now |-> ret.metadata]).cause.text
        /\ ret.state.why = "InvalidMetadataAction" =>
               /\ ret.state.cause.kind = "Message"
               /\ ret.state.cause.data = NoValue
               /\ TimesCalled("restored_layer_action") = 0
               /\ ret.state.cause.text =
                      InvalidOf("shared", [M |-> ret.M,
                                           invalid |-> [some |-> ret.prior.hasMeta,
                                                        table |-> DocTable(ret.prior.doc)]
                                          ]).cause.text

\* A layer kept by cached_layer_builder whose stored value, migrated from an
\* earlier type, is not the fresh value.
C31_Witness ==
    /\ IsBuilderCall
    /\ ret.state.kind = "Restored"
    /\ ret.state.cause.kind = "Data"
    /\ ret.state.cause.data.old # ret.state.cause.data.now
    /\ ret.state.cause.data.old = OldOfBuild

(***************************************************************************)
(* The logger's timed step and timed stream: who owns the writer.          *)
(***************************************************************************)
\* The duration texts finish_timed_step can write.
DurationTexts == {fmt_details(human(s * 1000)) \o "\n" : s \in 0..(MaxClock + 1)}

\* What the timer thread writes: the start text with the first tick, ticks,
\* the end text.
IsStartText(text) == \E s \in Steps : text = fmt_step(s \o background_timer_start)

TimerTexts == {background_timer_tick, background_timer_end}

\* C32: finish_timed_step stops and joins the timer thread before it takes
\* the writer back: when Arc::try_unwrap runs the thread holds no reference
\* to the writer, so the unwrap does not fail, and no tick is written after
\* the duration text or after the section logger returned has written.
C32_JoinedBeforeUnwrap ==
    /\ log.last.method = "finish_timed_step" => log.last.out # {}
    /\ log.background.pc \in {"start", "recv"} =>
           \E h \in log.live : h.state = "FinishTimedStep"
    /\ (\E h \in log.live : h.state # "FinishTimedStep") => strong_count = 1 + log.writers
    /\ \A i \in DOMAIN log.io :
           log.io[i] \in TimerTexts =>
               \E j \in 1..(i - 1) :
                   /\ IsStartText(log.io[j])
                   /\ \A k \in (j + 1)..(i - 1) : log.io[k] \in TimerTexts

\* A timed step has finished and the section logger has written after it:
\* start text, ticks, end text, duration, the next step.
C32_Witness ==
    /\ log.last.method = "step"
    /\ \E i \in DOMAIN log.io :
           /\ i + 5 = Len(log.io)
           /\ IsStartText(log.io[i])
           /\ log.io[i + 1] = background_timer_tick
           /\ log.io[i + 2] = background_timer_tick
           /\ log.io[i + 3] = background_timer_end
           /\ log.io[i + 4] \in DurationTexts
           /\ log.io[i + 5] = fmt_step("Installing") \o "\n"

\* The "Done (duration)" steps finish_timed_stream can write.
DoneTexts == {"  - Done (" \o human(s * 1000) \o ")\n" : s \in 0..(MaxClock + 1)}

\* C33: finish_timed_stream takes the writer back for itself alone: called
\* when every writer io() handed out has been dropped, it writes a newline
\* and a "Done (duration)" step and returns an InSection logger over the
\* same writer; called while such a writer is alive, it panics and returns
\* no logger.
C33_ExclusiveWriter ==
    [][(log'.last.method = "finish_timed_stream" /\ log'.last # log.last) =>
          IF log.writers > 0
          THEN /\ log'.live = {}
               /\ log'.last.out = {}
               /\ log'.io = log.io
          ELSE /\ Len(log'.io) = Len(log.io) + 2
               /\ SubSeq(log'.io, 1, Len(log.io)) = log.io
               /\ log'.io[Len(log.io) + 1] = "\n"
               /\ log'.io[Len(log.io) + 2] \in DoneTexts
               /\ \E h \in log'.live :
                      /\ log'.live = {h}
                      /\ h.state = "InSection"
                      /\ \A self \in log'.last.self : h.started = self.build_timer
               /\ log'.writers = 0]_vars

\* A stream has finished after its writer wrote a line and was dropped.
C33_Witness ==
    /\ log.last.method = "finish_timed_stream"
    /\ log.last.out # {}
    /\ log.writers = 0
    /\ Len(log.io) >= 3
    /\ log.io[Len(log.io)] \in DoneTexts
    /\ log.io[Len(log.io) - 1] = "\n"
    /\ log.io[Len(log.io) - 2] = cmd_stream_format("hello world\n")

\* finish_timed_stream has panicked: a writer was alive.
C33_WitnessPanic ==
    /\ Panicked
    /\ log.writers > 0

\* The build start a handle of the logger carries.
BuildStart(h) ==
    IF h.state \in {"FinishTimedStep", "StreamTimed"} THEN h.build_timer ELSE h.started

\* C34: the instant BuildLog::new recorded is carried unchanged through
\* every transition of the logger (buildpack_name, section, step_and,
\* step_timed and finish_timed_step, step_timed_stream and
\* finish_timed_stream, end_section), and finish_logging reports the time
\* since the logger was created, not since a section, step or stream began.
C34_BuildStartKept ==
    /\ \A h \in log.live : BuildStart(h) = 0
    /\ \A h \in log.last.out : BuildStart(h) = 0
    /\ log.last.method = "finish_logging" =>
           log.io[Len(log.io)] =
               "- Done (finished in " \o human((log.clock - 1) * 1000) \o ")\n"

\* The logger has finished after a section with a timed stream.
C34_Witness ==
    /\ log.last.method = "finish_logging"
    /\ \E i \in DOMAIN log.io : log.io[i] \in DoneTexts
    /\ log.io[Len(log.io)] = "- Done (finished in 5.000s)\n"

(***************************************************************************)
(* FilesWithSize::clean: the files least_recently_used_files_above_limit   *)
(* returned are removed.                                                   *)
(***************************************************************************)
\* std::fs::remove_file for each file in turn, stopping at the first that
\* cannot be removed.
RECURSIVE remove_files(_, _)
remove_files(dir, files) ==
    IF files = <<>> THEN [ok |-> TRUE, dir |-> dir]
    ELSE IF dir[Head(files)].kind # "file" THEN [ok |-> FALSE, dir |-> dir]
    ELSE remove_files([dir EXCEPT ![Head(files)] = NoEntry], Tail(files))

\* cache.least_recently_used_files_above_limit(max_bytes)?.clean()
clean ==
    /\ call.fn = "least_recently_used_files_above_limit"
    /\ LET removed == remove_files(fs.cache, call.result.files)
       IN  /\ fs' = [fs EXCEPT !.cache = removed.dir]
           /\ call' = [fn |-> "clean",
                       args |-> [files |-> call.result.files,
                                 max_bytes |-> call.args.max_bytes,
                                 looked_at |-> call.args.cache_path,
                                 cache_path |-> fs.cache],
                       result |-> [ok |-> removed.ok, cache_path |-> removed.dir]]
    /\ UNCHANGED <<layers, ret, log, timer, layer_data>>

NextClean ==
    \/ fs_write({"cache"}, LruPaths, 1..MaxSize, 0..MaxMtime, {""})
    \/ least_recently_used_files_above_limit
    \/ clean

SpecClean == Init /\ [][NextClean]_vars

\* The size of the regular files of a directory.
RECURSIVE SizeOfFiles(_, _)
SizeOfFiles(dir, paths) ==
    IF paths = {} THEN 0
    ELSE LET p == CHOOSE q \in paths : TRUE
         IN  (IF dir[p].kind = "file" THEN dir[p].size ELSE 0)
             + SizeOfFiles(dir, paths \ {p})

\* The last call cleaned the directory as the call before had found it.
Cleaned ==
    /\ call.fn = "clean"
    /\ call.result.ok
    /\ call.args.looked_at = call.args.cache_path

\* C35: when FilesWithSize::clean has removed the files that
\* least_recently_used_files_above_limit(max_bytes) returned, the regular
\* files left under the cache path are of at most max_bytes in all.
C35_AtMostMaxBytes ==
    Cleaned =>
        SizeOfFiles(call.result.cache_path, Range(PathOrder)) <= call.args.max_bytes

\* The older file of 1 byte was removed under a limit of 1 byte, and the
\* newer one of 2 bytes is left.
C35_LeftAboveLimit ==
    /\ Cleaned
    /\ call.args.max_bytes = 1
    /\ call.args.files = <<"z_older">>
    /\ call.result.cache_path["z_older"].kind = "none"
    /\ call.result.cache_path["a_newer"].kind = "file"
    /\ call.result.cache_path["a_newer"].size = 2

\* What is left is never below the limit the files were above: the file
\* whose removal would bring the size under max_bytes is kept.
C35_LeftAtOrAboveLimit ==
    (Cleaned /\ call.args.files # <<>>) =>
        SizeOfFiles(call.result.cache_path, Range(PathOrder)) >= call.args.max_bytes

(***************************************************************************)
(* The thread of LiveTimingInline under fair scheduling: the thread runs   *)
(* when it can, and the function that holds the timer goes on to call done *)
(* or to return, by which the timer is dropped.                            *)
(***************************************************************************)
SpecTimerFair ==
    /\ SpecTimer
    /\ WF_vars(join_dots_thread)
    /\ WF_vars(stop_dots \/ drop)
    /\ WF_vars(join)
    /\ WF_vars(done)

\* C36: the thread LiveTimingInline::new starts terminates in the end and
\* prints no more dots, in every execution, also when the timer is dropped
\* without a call of done (RubyInstallLayer::create returning early on a
\* download error).
C36_ThreadTerminates ==
    (timer.thread = "spawned") ~> (timer.thread = "exited")

\* The timer was dropped without done, and the thread prints dot after dot.
C36_DotsAfterDrop ==
    /\ timer.main = "dropped"
    /\ timer.dones = 0
    /\ timer.thread = "print" /\ ~timer.msg_is_ok
    /\ Len(timer.stdout) = MaxDots
    /\ \A i \in 3..MaxDots : timer.stdout[i] = "."

\* With done called, the thread terminates.
C36_TerminatesWhenDone ==
    (timer.main = "join") ~> (timer.thread = "exited")
====
